---- MODULE Spec2Model ----
(***************************************************************************)
(* GPU fleet coordination subsystem (gpu_balance): the process tracker,    *)
(* the GPU monitor and the shared coordination store they write to.        *)
(*                                                                         *)
(* The store is modelled key by key: a hash is a function from a set of    *)
(* field names to values, and a key that does not exist is the hash with   *)
(* the empty domain (as in Redis, where an empty hash or set is no key).   *)
(***************************************************************************)
EXTENDS Integers, FiniteSets, Sequences, TLC

(***************************************************************************)
(* Bounds of the model.                                                    *)
(***************************************************************************)
NumPids == 1
NumGPUs == 2
MaxTicks == 2
TickSeconds == 20
MaxElapse == 4
MaxThreads == 2
MaxFleet == 3
MaxCycles == 2

Pids == 1..NumPids
GPUs == 0..(NumGPUs - 1)
ProcTypes == {"collect"}
Priorities == {5}

(***************************************************************************)
(* Program constants (gpu_balance/config.py).                              *)
(***************************************************************************)
heartbeat_timeout == 30
monitor_interval == 5
metrics_ttl == 10
available_ttl == 15

\* GPUBalanceConfig.thresholds with the default environment
config_thresholds ==
    [min_memory_mb |-> 2000, max_utilization |-> 90, max_temperature |-> 85,
     util_low_threshold |-> 50, util_high_threshold |-> 85, adaptive |-> TRUE]

VARIABLES
    now,            \* time.time(), in seconds
    process,        \* process:{pid}        hash per pid
    gpu_processes,  \* gpu:{gpu_id}:processes   set per GPU
    registry,       \* process:registry     hash pid -> proc_type
    lastOp,         \* the operation that returned last, and its result
    metrics,        \* gpu:metrics:{gpu_id}   hash per GPU
    metrics_exp,    \* its expiry time: {} without TTL, {t} when it expires at t
    available,      \* gpu:available          set
    available_exp,  \* its expiry time
    thresholds_current, \* thresholds:current hash
    cfg_gpu_balancing,  \* whether the injected config object has a gpu_balancing section
    lastThresholds, \* what the threshold manager's last call was given and returned
    lastTick,       \* what the last monitor_once collected, computed and returned
    pub,            \* per publisher: where it is inside update_available_gpus
    ticks,          \* the available lists computed by the ticks that published so far
    program,        \* which main() this process runs: gpu_monitor --daemon or balance_daemon
    running,        \* GPUMonitor.running
    monitor_thread, \* GPUMonitor.monitor_thread: {} for None, {t} for thread t
    loop,           \* per thread: where it is in _monitor_loop
    caller,         \* the thread that calls start() and stop(): idle, or inside stop()'s join
    stop_event,     \* BalanceDaemon.stop_event
    daemon,         \* BalanceDaemon: where run() is, balance:daemon:status, the last cycle's end
    lastScore,      \* what score_gpu returned, while it is the last operation
    lastAlloc,      \* what allocate_gpu was asked and returned, while it is the last operation
    paused,         \* gpu:paused_new_tasks          set
    preferred,      \* gpu:preferred_for_new_tasks   set
    lastPlan,       \* what create_rebalance_plan was given and returned
    lastExec,       \* the action execute_action was given, and what it returned
    lastBalance,    \* what balance_once detected and returned
    balance_count,  \* BalanceDaemon.balance_count
    history_index,  \* balance:history:index: the keys balance:history:{t}, by their t
    cfg_enable_migration, \* config.gpu_balancing['enable_migration'], when the section exists
    sweep           \* the tracker call in progress, command by command, and the pids removed

trackerVars == <<process, gpu_processes, registry>>
monitorVars == <<metrics, metrics_exp, available, available_exp, lastTick>>
thresholdVars == <<thresholds_current, cfg_gpu_balancing, lastThresholds>>
raceVars == <<pub, ticks, sweep>>
loopVars == <<program, running, monitor_thread, loop, caller>>
daemonVars == <<stop_event, daemon>>
schedVars == <<lastScore, lastAlloc>>
balanceVars == <<paused, preferred, lastPlan, lastExec, lastBalance,
                 balance_count, history_index, cfg_enable_migration>>
vars == <<now, lastOp, process, gpu_processes, registry,
          metrics, metrics_exp, available, available_exp,
          thresholds_current, cfg_gpu_balancing, lastThresholds, lastTick, pub, ticks,
          program, running, monitor_thread, loop, caller, stop_event, daemon,
          lastScore, lastAlloc, paused, preferred, lastPlan, lastExec, lastBalance,
          balance_count, history_index, cfg_enable_migration, sweep>>

(***************************************************************************)
(* Store primitives.                                                       *)
(***************************************************************************)
NoHash == [f \in {} |-> 0]

HSet(h, m) ==
    [f \in (DOMAIN h) \cup (DOMAIN m) |-> IF f \in DOMAIN m THEN m[f] ELSE h[f]]

HDel(h, k) == [f \in (DOMAIN h) \ {k} |-> h[f]]

(***************************************************************************)
(* ProcessInfo and get_process_info.  Fields that no operation reads back  *)
(* (start_time, games_completed, iteration) are written together with pid  *)
(* and are left out of the hash.                                           *)
(***************************************************************************)
ProcessInfoFields == {"pid", "gpu_id", "proc_type", "status", "priority", "last_heartbeat"}

ProcessInfo(pid, gpu_id, proc_type, status, priority, t) ==
    [f \in ProcessInfoFields |->
        CASE f = "pid" -> pid
          [] f = "gpu_id" -> gpu_id
          [] f = "proc_type" -> proc_type
          [] f = "status" -> status
          [] f = "priority" -> priority
          [] f = "last_heartbeat" -> t]

\* hgetall returned nothing, or a field is missing (KeyError/TypeError caught): None
HasInfo(proc, pid) == ProcessInfoFields \subseteq DOMAIN proc[pid]

get_process_info(proc, pid) == proc[pid]

heartbeat_age(info, t) == t - info["last_heartbeat"]

\* get_all_processes: the pids of the registry whose record can be read
get_all_processes(proc, reg) == {p \in DOMAIN reg : HasInfo(proc, p)}

\* get_processes_by_gpu: the members of the per-GPU set whose record can be read
get_processes_by_gpu(proc, gp, g) == {p \in gp[g] : HasInfo(proc, p)}

Result(op, pid, ok, pids) == [op |-> op, pid |-> pid, ok |-> ok, pids |-> pids]

(***************************************************************************)
(* register_process                                                        *)
(***************************************************************************)
RegisterRecord(proc, pid, gpu_id, proc_type, priority, t) ==
    [proc EXCEPT ![pid] = HSet(@, ProcessInfo(pid, gpu_id, proc_type, "running", priority, t))]

\* the sadd to the per-GPU set forgotten
RegisterGpuSet_skip(gp, pid, gpu_id) == gp

RegisterGpuSet(gp, pid, gpu_id) == [gp EXCEPT ![gpu_id] = @ \cup {pid}]

RegisterRegistry(reg, pid, proc_type) == HSet(reg, pid :> proc_type)

register_process(pid, gpu_id, proc_type, priority) ==
    /\ process' = RegisterRecord(process, pid, gpu_id, proc_type, priority, now)
    /\ gpu_processes' = RegisterGpuSet(gpu_processes, pid, gpu_id)
    /\ registry' = RegisterRegistry(registry, pid, proc_type)
    /\ lastOp' = Result("register", pid, TRUE, {})
    /\ UNCHANGED now

(***************************************************************************)
(* update_heartbeat: hset of last_heartbeat and the keyword fields.        *)
(***************************************************************************)
HeartbeatKwargs == {NoHash, [f \in {"status"} |-> "running"]}

HeartbeatRecord(proc, pid, t, kwargs) ==
    [proc EXCEPT ![pid] = HSet(@, HSet([f \in {"last_heartbeat"} |-> t], kwargs))]

update_heartbeat(pid, kwargs) ==
    /\ process' = HeartbeatRecord(process, pid, now, kwargs)
    /\ lastOp' = Result("heartbeat", pid, TRUE, {})
    /\ UNCHANGED <<now, gpu_processes, registry>>

(***************************************************************************)
(* check_heartbeats                                                        *)
(***************************************************************************)
\* the timeout comparison forgotten: every readable process is reported
StalePids_all(proc, reg, t) == get_all_processes(proc, reg)

StalePids(proc, reg, t) ==
    {p \in get_all_processes(proc, reg) :
        heartbeat_age(get_process_info(proc, p), t) > heartbeat_timeout}

MarkStuck(proc, stale) ==
    [p \in Pids |-> IF p \in stale
                    THEN HSet(proc[p], [f \in {"status"} |-> "stuck"])
                    ELSE proc[p]]

check_heartbeats ==
    LET stale_pids == StalePids(process, registry, now) IN
    /\ process' = MarkStuck(process, stale_pids)
    /\ lastOp' = Result("scan", 0, TRUE, stale_pids)
    /\ UNCHANGED <<now, gpu_processes, registry>>

(***************************************************************************)
(* Removal of one process from the three indices (cleanup and unregister). *)
(***************************************************************************)
RemoveFromGpuSets(gp, proc, pids) ==
    [g \in GPUs |-> gp[g] \ {p \in pids : get_process_info(proc, p)["gpu_id"] = g}]

RECURSIVE RemoveFromRegistry(_, _)
RemoveFromRegistry(reg, pids) ==
    IF pids = {} THEN reg
    ELSE LET p == CHOOSE q \in pids : TRUE
         IN RemoveFromRegistry(HDel(reg, p), pids \ {p})

DeleteRecords(proc, pids) == [p \in Pids |-> IF p \in pids THEN NoHash ELSE proc[p]]

(***************************************************************************)
(* cleanup_stale_processes: runs check_heartbeats, then removes the pids   *)
(* it returned.                                                            *)
(***************************************************************************)
CleanupTargets(proc, reg, t) ==
    {p \in StalePids(proc, reg, t) : HasInfo(MarkStuck(proc, StalePids(proc, reg, t)), p)}

cleanup_stale_processes ==
    LET stale_pids == CleanupTargets(process, registry, now)
        marked == MarkStuck(process, StalePids(process, registry, now))
    IN
    /\ gpu_processes' = RemoveFromGpuSets(gpu_processes, marked, stale_pids)
    /\ registry' = RemoveFromRegistry(registry, stale_pids)
    /\ process' = DeleteRecords(marked, stale_pids)
    /\ lastOp' = Result("reap", 0, TRUE, stale_pids)
    /\ UNCHANGED now

(***************************************************************************)
(* unregister_process                                                      *)
(***************************************************************************)
unregister_process(pid) ==
    IF ~HasInfo(process, pid)
    THEN /\ lastOp' = Result("unregister", pid, FALSE, {})
         /\ UNCHANGED <<now, process, gpu_processes, registry>>
    ELSE /\ gpu_processes' = RemoveFromGpuSets(gpu_processes, process, {pid})
         /\ registry' = RemoveFromRegistry(registry, {pid})
         /\ process' = DeleteRecords(process, {pid})
         /\ lastOp' = Result("unregister", pid, TRUE, {})
         /\ UNCHANGED now

(***************************************************************************)
(* The tracker's calls command by command, as they run next to a worker    *)
(* that sends heartbeats.  check_heartbeats reads the processes, then      *)
(* writes status = stuck for each stale pid ("mark"); cleanup goes on, for *)
(* each of these pids, to get_process_info ("info"), srem, hdel, delete;   *)
(* unregister_process is get_process_info, srem, hdel, delete.  removed    *)
(* holds the pids whose removal has completed since they were registered.  *)
(***************************************************************************)
SweepIdle(removed) ==
    [op |-> "idle", pc |-> "idle", todo |-> {}, stale_pids |-> {}, pid |-> 0, gpu_id |-> 0,
     removed |-> removed]

\* get_all_processes and the timeout test of lines 238-243
sweep_begin(op) ==
    LET stale_pids == StalePids(process, registry, now) IN
    /\ sweep.pc = "idle"
    /\ sweep' = IF stale_pids = {} THEN sweep
                ELSE [sweep EXCEPT !.op = op, !.pc = "mark",
                                   !.todo = stale_pids, !.stale_pids = stale_pids]
    /\ lastOp' = IF stale_pids = {} THEN Result(op, 0, TRUE, {}) ELSE lastOp
    /\ UNCHANGED <<now, process, gpu_processes, registry>>

\* hset(process:{pid}, status = stuck) (lines 250-253)
sweep_mark(p) ==
    LET todo == sweep.todo \ {p} IN
    /\ sweep.pc = "mark"
    /\ p \in sweep.todo
    /\ process' = [process EXCEPT ![p] = HSet(@, [f \in {"status"} |-> "stuck"])]
    /\ sweep' = IF todo # {} THEN [sweep EXCEPT !.todo = todo]
                ELSE IF sweep.op = "scan" THEN SweepIdle(sweep.removed)
                ELSE [sweep EXCEPT !.pc = "info", !.todo = sweep.stale_pids]
    /\ lastOp' = IF todo = {} /\ sweep.op = "scan"
                 THEN Result("scan", 0, TRUE, sweep.stale_pids) ELSE lastOp
    /\ UNCHANGED <<now, gpu_processes, registry>>

\* get_process_info(pid) of cleanup (lines 275-277): a pid without a full
\* record is passed over
sweep_info(p) ==
    LET todo == sweep.todo \ {p} IN
    /\ sweep.pc = "info"
    /\ p \in sweep.todo
    /\ sweep' = IF HasInfo(process, p)
                THEN [sweep EXCEPT !.pc = "srem", !.todo = todo, !.pid = p,
                                   !.gpu_id = get_process_info(process, p)["gpu_id"]]
                ELSE IF todo # {} THEN [sweep EXCEPT !.todo = todo]
                ELSE SweepIdle(sweep.removed)
    /\ lastOp' = IF ~HasInfo(process, p) /\ todo = {}
                 THEN Result("reap", 0, TRUE, sweep.stale_pids) ELSE lastOp
    /\ UNCHANGED <<now, process, gpu_processes, registry>>

\* get_process_info(pid) of unregister_process (lines 310-313)
unregister_begin(p) ==
    /\ sweep.pc = "idle"
    /\ sweep' = IF HasInfo(process, p)
                THEN [sweep EXCEPT !.op = "unregister", !.pc = "srem", !.pid = p,
                                   !.gpu_id = get_process_info(process, p)["gpu_id"]]
                ELSE sweep
    /\ lastOp' = IF HasInfo(process, p) THEN lastOp ELSE Result("unregister", p, FALSE, {})
    /\ UNCHANGED <<now, process, gpu_processes, registry>>

\* srem(gpu:{gpu_id}:processes, pid) (lines 280, 316)
sweep_srem ==
    /\ sweep.pc = "srem"
    /\ gpu_processes' = [gpu_processes EXCEPT ![sweep.gpu_id] = @ \ {sweep.pid}]
    /\ sweep' = [sweep EXCEPT !.pc = "hdel"]
    /\ UNCHANGED <<now, lastOp, process, registry>>

\* hdel(process:registry, pid) (lines 283, 319)
sweep_hdel ==
    /\ sweep.pc = "hdel"
    /\ registry' = HDel(registry, sweep.pid)
    /\ sweep' = [sweep EXCEPT !.pc = "delete"]
    /\ UNCHANGED <<now, lastOp, process, gpu_processes>>

\* delete(process:{pid}) (lines 286, 322), which completes the removal
sweep_delete ==
    LET removed == sweep.removed \cup {sweep.pid}
        last == sweep.op = "unregister" \/ sweep.todo = {}
    IN
    /\ sweep.pc = "delete"
    /\ process' = [process EXCEPT ![sweep.pid] = NoHash]
    /\ sweep' = IF last THEN SweepIdle(removed)
                ELSE [sweep EXCEPT !.pc = "info", !.removed = removed]
    /\ lastOp' = IF ~last THEN lastOp
                 ELSE IF sweep.op = "unregister" THEN Result("unregister", sweep.pid, TRUE, {})
                 ELSE Result("reap", 0, TRUE, sweep.stale_pids)
    /\ UNCHANGED <<now, gpu_processes, registry>>

(***************************************************************************)
(* Device telemetry (utils.py).  The text nvidia-smi prints for one query  *)
(* is a sequence: <<>> is the empty output of a failed or timed-out call,  *)
(* <<n>> the output that int()/float() parse to n.                         *)
(***************************************************************************)
HostReadings ==
    { [util |-> <<20>>, used |-> <<2000>>, total |-> <<10000>>, temp |-> <<60>>, procs |-> 0],
      [util |-> <<92>>, used |-> <<5000>>, total |-> <<10000>>, temp |-> <<70>>, procs |-> 1],
      [util |-> <<95>>, used |-> <<9500>>, total |-> <<10000>>, temp |-> <<80>>, procs |-> 2],
      [util |-> <<>>,   used |-> <<>>,     total |-> <<>>,      temp |-> <<>>,   procs |-> 0],
      [util |-> <<>>,   used |-> <<>>,     total |-> <<10000>>, temp |-> <<>>,   procs |-> 0] }

ParseOrZero(out) == IF out = <<>> THEN 0 ELSE out[1]

get_gpu_memory(r) ==
    LET memory_used == ParseOrZero(r.used)
        memory_total == ParseOrZero(r.total)
    IN [used |-> memory_used, total |-> memory_total, free |-> memory_total - memory_used]

get_gpu_utilization(r) == ParseOrZero(r.util)

get_gpu_temperature(r) == ParseOrZero(r.temp)

(***************************************************************************)
(* GPUMonitor.collect_gpu_metrics / collect_all_gpus                       *)
(***************************************************************************)
GPUMetricsFields ==
    {"gpu_id", "utilization", "memory_used_mb", "memory_total_mb", "memory_free_mb",
     "temperature", "num_processes"}

collect_gpu_metrics(gpu_id, r) ==
    LET memory == get_gpu_memory(r) IN
    [f \in GPUMetricsFields |->
        CASE f = "gpu_id" -> gpu_id
          [] f = "utilization" -> get_gpu_utilization(r)
          [] f = "memory_used_mb" -> memory.used
          [] f = "memory_total_mb" -> memory.total
          [] f = "memory_free_mb" -> memory.free
          [] f = "temperature" -> get_gpu_temperature(r)
          [] f = "num_processes" -> r.procs]

\* host: the readings of GPUs 0..gpu_count-1; gpu_count = 0 gives the empty dict
collect_all_gpus(host) == [g \in DOMAIN host |-> collect_gpu_metrics(g, host[g])]

Hosts == UNION {[0..(n - 1) -> HostReadings] : n \in 0..NumGPUs}

\* the hosts a tick of the background loop runs on: no GPU detected, or
\* every GPU idle and answering all its queries
LoopHosts ==
    {host \in Hosts : \A g \in DOMAIN host : host[g].util # <<>> /\ host[g].procs = 0}

(***************************************************************************)
(* publish_metrics / publish_gpu_metrics: hset, then expire(ttl)           *)
(***************************************************************************)
PublishMetrics(m, metrics_dict) ==
    [g \in GPUs |-> IF g \in DOMAIN metrics_dict THEN HSet(m[g], metrics_dict[g]) ELSE m[g]]

PublishExpire(e, metrics_dict, t) ==
    [g \in GPUs |-> IF g \in DOMAIN metrics_dict THEN {t + metrics_ttl} ELSE e[g]]

(***************************************************************************)
(* GPUMonitor.update_available_gpus                                        *)
(***************************************************************************)
AvailableGpus(metrics_dict, min_memory, max_util) ==
    {g \in DOMAIN metrics_dict :
        /\ metrics_dict[g]["memory_free_mb"] >= min_memory
        /\ metrics_dict[g]["utilization"] <= max_util}

\* the thresholds the monitor filters with
MonitorThresholds(cur) == config_thresholds

update_available_gpus(metrics_dict, cur) ==
    AvailableGpus(metrics_dict, MonitorThresholds(cur).min_memory_mb,
                  MonitorThresholds(cur).max_utilization)

\* delete, then sadd and expire when the list is not empty
AvailableExpire(available_gpus, t) ==
    IF available_gpus # {} THEN {t + available_ttl} ELSE {}

(***************************************************************************)
(* GPUMonitor.monitor_once.  _log_summary formats an undefined name, so    *)
(* a call that collected metrics raises after its two publishes.           *)
(***************************************************************************)
monitor_once(host) ==
    LET metrics_dict == collect_all_gpus(host)
        available_gpus == update_available_gpus(metrics_dict, thresholds_current)
    IN
    IF DOMAIN metrics_dict = {}
    THEN /\ lastTick' = [count |-> Cardinality(DOMAIN host), metrics_dict |-> metrics_dict,
                         available_gpus |-> {}, raised |-> FALSE]
         /\ lastOp' = Result("monitor_once", 0, TRUE, {})
         /\ UNCHANGED <<now, metrics, metrics_exp, available, available_exp>>
    ELSE /\ metrics' = PublishMetrics(metrics, metrics_dict)
         /\ metrics_exp' = PublishExpire(metrics_exp, metrics_dict, now)
         /\ available' = available_gpus
         /\ available_exp' = AvailableExpire(available_gpus, now)
         /\ lastTick' = [count |-> Cardinality(DOMAIN host), metrics_dict |-> metrics_dict,
                         available_gpus |-> available_gpus, raised |-> TRUE]
         /\ lastOp' = Result("monitor_once", 0, FALSE, DOMAIN metrics_dict)
         /\ UNCHANGED now

(***************************************************************************)
(* Key expiry in the store as time passes.                                 *)
(***************************************************************************)
Expired(e, t) == \E x \in e : x <= t

elapse ==
    LET t == now + monitor_interval IN
    /\ now < MaxElapse * monitor_interval
    /\ now' = t
    /\ metrics' = [g \in GPUs |-> IF Expired(metrics_exp[g], t) THEN NoHash ELSE metrics[g]]
    /\ metrics_exp' = [g \in GPUs |-> IF Expired(metrics_exp[g], t) THEN {} ELSE metrics_exp[g]]
    /\ available' = IF Expired(available_exp, t) THEN {} ELSE available
    /\ available_exp' = IF Expired(available_exp, t) THEN {} ELSE available_exp
    /\ lastOp' = Result("elapse", 0, TRUE, {})
    /\ UNCHANGED lastTick

(***************************************************************************)
(* ThresholdManager.get_current_thresholds / adjust_thresholds /           *)
(* _save_thresholds.  last_adjusted and reason are not read by any         *)
(* decision and are left out of the hash.                                  *)
(***************************************************************************)
ThresholdFields ==
    {"min_memory_mb", "max_utilization", "util_high_threshold", "util_low_threshold", "adaptive"}

\* _get_default_thresholds reads config.gpu_balancing['thresholds']
default_thresholds == [f \in ThresholdFields |-> config_thresholds[f]]

\* raises when the key is absent and the config has no gpu_balancing section
CurrentThresholdsRaises(cur, has_section) == cur = NoHash /\ ~has_section

get_current_thresholds(cur) == IF cur # NoHash THEN cur ELSE default_thresholds

\* the optional arguments that are not None
AdjustArgs ==
    { NoHash,
      [f \in {"max_utilization"} |-> 95],
      [f \in {"min_memory_mb"} |-> 4000],
      [f \in {"min_memory_mb"} |-> 8000],
      [f \in {"min_memory_mb", "max_utilization"} |-> IF f = "min_memory_mb" THEN 1000 ELSE 95] }

adjust_thresholds(args) ==
    IF CurrentThresholdsRaises(thresholds_current, cfg_gpu_balancing)
    THEN /\ lastOp' = Result("adjust_thresholds", 0, FALSE, {})
         /\ UNCHANGED <<now, thresholds_current, cfg_gpu_balancing>>
    ELSE /\ thresholds_current' =
                HSet(thresholds_current, HSet(get_current_thresholds(thresholds_current), args))
         /\ lastOp' = Result("adjust_thresholds", 0, TRUE, {})
         /\ UNCHANGED <<now, cfg_gpu_balancing>>

(***************************************************************************)
(* update_available_gpus command by command, for callers that run          *)
(* concurrently: the monitor loop's thread, and monitor_once called        *)
(* directly (LoadBalancer.detect_imbalance calls it on its own monitor).   *)
(* Each store command is atomic; the sequence delete, sadd, expire is not. *)
(***************************************************************************)
Publishers == {"loop", "once"}

\* the list is computed from the tick's metrics (lines 176-183)
pub_begin(i, host) ==
    LET available_gpus == update_available_gpus(collect_all_gpus(host), thresholds_current) IN
    /\ pub[i].pc = "idle"
    /\ DOMAIN host # {}
    /\ pub' = [pub EXCEPT ![i] = [pc |-> "delete", available_gpus |-> available_gpus,
                                  replaced |-> {}]]
    /\ ticks' = ticks \cup {available_gpus}
    /\ UNCHANGED <<now, lastOp, available, available_exp, sweep>>

\* redis.delete(key), in both branches (lines 189, 193)
pub_delete(i) ==
    /\ pub[i].pc = "delete"
    /\ available' = {}
    /\ available_exp' = {}
    /\ pub' = [pub EXCEPT ![i].pc = IF pub[i].available_gpus # {} THEN "sadd" ELSE "idle",
                          ![i].replaced = available]
    /\ UNCHANGED <<now, lastOp, ticks, sweep>>

\* redis.sadd(key, *available_gpus) (line 190)
pub_sadd(i) ==
    /\ pub[i].pc = "sadd"
    /\ available' = available \cup pub[i].available_gpus
    /\ pub' = [pub EXCEPT ![i].pc = "expire"]
    /\ UNCHANGED <<now, lastOp, available_exp, ticks, sweep>>

\* redis.expire(key, 15) (line 191)
pub_expire(i) ==
    /\ pub[i].pc = "expire"
    /\ available_exp' = IF available # {} THEN {now + available_ttl} ELSE {}
    /\ pub' = [pub EXCEPT ![i].pc = "idle"]
    /\ UNCHANGED <<now, lastOp, available, ticks, sweep>>

\* a reader's smembers gpu:available
read_available ==
    /\ lastOp' = Result("smembers", 0, TRUE, available)
    /\ UNCHANGED <<now, available, available_exp, pub, ticks, sweep>>

(***************************************************************************)
(* GPUMonitor.start / stop / _monitor_loop.  A thread of the loop is at    *)
(* "check" before the test of while self.running, at "tick" inside         *)
(* monitor_once, at "sleep" in time.sleep(monitor_interval), at "backoff"  *)
(* in the time.sleep(5) of the except branch, and "done" after the loop.   *)
(***************************************************************************)
Threads == 1..MaxThreads

\* where the loop goes when monitor_once has returned or raised
loop_after_tick(raised) == IF raised THEN "backoff" ELSE "sleep"

\* both sleeps fall through to the test of the while
loop_after_sleep_exit(pc) == IF pc = "backoff" THEN "done" ELSE "check"

loop_after_sleep(pc) == "check"

start ==
    /\ program = "gpu_monitor"
    /\ caller = "idle"
    /\ \E t \in Threads : loop[t] = "unborn"
    /\ IF running
       THEN /\ lastOp' = Result("start", 0, FALSE, {})
            /\ UNCHANGED <<now, program, running, monitor_thread, loop, caller>>
       ELSE LET t == CHOOSE x \in Threads :
                        loop[x] = "unborn" /\ \A y \in Threads : loop[y] = "unborn" => x <= y
            IN  /\ running' = TRUE
                /\ monitor_thread' = {t}
                /\ loop' = [loop EXCEPT ![t] = "check"]
                /\ lastOp' = Result("start", 0, TRUE, {t})
                /\ UNCHANGED <<now, program, caller>>

\* running = False, then join(timeout=5) on the current thread
stop ==
    /\ program = "gpu_monitor"
    /\ caller = "idle"
    /\ IF ~running
       THEN /\ lastOp' = Result("stop", 0, FALSE, {})
            /\ UNCHANGED <<now, program, running, monitor_thread, loop, caller>>
       ELSE /\ running' = FALSE
            /\ caller' = "join"
            /\ lastOp' = Result("stop", 0, TRUE, monitor_thread)
            /\ UNCHANGED <<now, program, monitor_thread, loop>>

\* the join returns when the thread has ended or the 5 seconds are over
join_return ==
    /\ caller = "join"
    /\ caller' = "idle"
    /\ UNCHANGED <<now, lastOp, program, running, monitor_thread, loop>>

\* while self.running:
loop_check(t) ==
    /\ loop[t] = "check"
    /\ loop' = [loop EXCEPT ![t] = IF running THEN "tick" ELSE "done"]
    /\ UNCHANGED <<now, lastOp, monitorVars, program, running, monitor_thread, caller>>

\* self.monitor_once() inside the try
loop_tick(t, host) ==
    /\ loop[t] = "tick"
    /\ monitor_once(host)
    /\ loop' = [loop EXCEPT ![t] = loop_after_tick(lastTick'.raised)]
    /\ UNCHANGED <<program, running, monitor_thread, caller>>

\* time.sleep(...) returns
loop_sleep(t) ==
    /\ loop[t] \in {"sleep", "backoff"}
    /\ loop' = [loop EXCEPT ![t] = loop_after_sleep(loop[t])]
    /\ UNCHANGED <<now, lastOp, monitorVars, program, running, monitor_thread, caller>>

(***************************************************************************)
(* BalanceDaemon.run / _cleanup / _signal_handler.  run() reads            *)
(* config.gpu_balancing before its loop.  The cycles a run of the model    *)
(* follows are counted by balance_count, up to MaxCycles.                  *)
(***************************************************************************)
signal_handler ==
    /\ program = "balance_daemon"
    /\ ~stop_event
    /\ stop_event' = TRUE
    /\ UNCHANGED <<now, lastOp, daemon>>

\* the log lines and the first status write of run()
run_begin ==
    /\ program = "balance_daemon"
    /\ daemon.pc = "new"
    /\ daemon' = IF cfg_gpu_balancing
                 THEN [daemon EXCEPT !.pc = "check", !.status = "running"]
                 ELSE [daemon EXCEPT !.pc = "raised"]
    /\ UNCHANGED <<now, lastOp, stop_event>>

\* while not self.stop_event.is_set():
run_check ==
    /\ daemon.pc = "check"
    /\ stop_event \/ balance_count < MaxCycles
    /\ daemon' = [daemon EXCEPT !.pc = IF stop_event THEN "cleanup" ELSE "cycle"]
    /\ UNCHANGED <<now, lastOp, stop_event>>

\* self.stop_event.wait(self.interval) returns
run_wait ==
    /\ daemon.pc = "wait"
    /\ daemon' = [daemon EXCEPT !.pc = "check"]
    /\ UNCHANGED <<now, lastOp, stop_event>>

\* finally: self._cleanup()
daemon_cleanup ==
    /\ daemon.pc = "cleanup"
    /\ daemon' = [daemon EXCEPT !.pc = "returned", !.status = "stopped"]
    /\ UNCHANGED <<now, lastOp, stop_event>>

(***************************************************************************)
(* The numbers of a score.  score_gpu computes with floats; the model      *)
(* computes the same expressions exactly, a number being a fraction n/d    *)
(* with d > 0 in lowest terms.                                             *)
(***************************************************************************)
RECURSIVE Gcd(_, _)
Gcd(a, b) == IF b = 0 THEN a ELSE Gcd(b, a % b)

Abs(x) == IF x < 0 THEN -x ELSE x

Max2(a, b) == IF a >= b THEN a ELSE b

Min2(a, b) == IF a <= b THEN a ELSE b

\* n / d for d # 0
Frac(n, d) ==
    LET g == Gcd(Abs(n), Abs(d))
        sgn == IF d < 0 THEN -1 ELSE 1
    IN [n |-> (sgn * n) \div g, d |-> (sgn * d) \div g]

Whole(k) == [n |-> k, d |-> 1]

FracAdd(a, b) == Frac(a.n * b.d + b.n * a.d, a.d * b.d)

FracLeq(a, b) == a.n * b.d <= b.n * a.d

FracMax(a, b) == IF FracLeq(b, a) THEN a ELSE b

FracMin(a, b) == IF FracLeq(a, b) THEN a ELSE b

(***************************************************************************)
(* Reading a hash through the scheduler's client.  The client is created   *)
(* with decode_responses=True, so the field names of a hash it returns are *)
(* str; a lookup with a bytes literal finds none of them and yields the    *)
(* default.  The values are the published numbers: int() and float() parse *)
(* back what str() of an int or a float wrote.                             *)
(***************************************************************************)
StrKey(f) == [name |-> f, bytes |-> FALSE]

BytesKey(f) == [name |-> f, bytes |-> TRUE]

HashGet(h, key, default) ==
    IF ~key.bytes /\ key.name \in DOMAIN h THEN h[key.name] ELSE default

\* the filter also drops the GPUs of gpu:paused_new_tasks
get_available_gpus_unpaused(m, min_memory_mb, max_utilization) ==
    {g \in GPUs :
        /\ m[g] # NoHash
        /\ g \notin paused
        /\ HashGet(m[g], BytesKey("memory_free_mb"), 0) >= min_memory_mb
        /\ HashGet(m[g], BytesKey("utilization"), 0) <= max_utilization}

\* utils.get_available_gpus: the metrics keys that pass the filter (the
\* list it returns is this set in ascending order)
get_available_gpus(m, min_memory_mb, max_utilization) ==
    {g \in GPUs :
        /\ m[g] # NoHash
        /\ HashGet(m[g], BytesKey("memory_free_mb"), 0) >= min_memory_mb
        /\ HashGet(m[g], BytesKey("utilization"), 0) <= max_utilization}

\* TaskScheduler.get_gpu_metrics: None (NoHash) when the key does not exist
get_gpu_metrics(gpu_id) ==
    IF metrics[gpu_id] = NoHash
    THEN NoHash
    ELSE [f \in GPUMetricsFields |->
            HashGet(metrics[gpu_id], StrKey(f), IF f = "gpu_id" THEN gpu_id ELSE 0)]

(***************************************************************************)
(* ThresholdManager.get_adaptive_thresholds.  load is what the pattern     *)
(* store holds for the current hour: <<>> when get_gpu_count() is 0 or no  *)
(* GPU has a pattern for this hour, else the hour and the fleet averages.  *)
(***************************************************************************)
HourLoads ==
    { <<>>,
      <<[hour |-> 10, avg_util |-> 60, avg_memory |-> 5000]>>,
      <<[hour |-> 2, avg_util |-> 60, avg_memory |-> 16000]>> }

\* the final clamps of lines 342-344 left out
adaptive_thresholds_unclamped(l) ==
    LET is_daytime == 8 <= l.hour /\ l.hour <= 20
        util_high == IF is_daytime THEN Min2(95, l.avg_util + 15) ELSE Min2(90, l.avg_util + 10)
        util_low == IF is_daytime THEN Max2(40, l.avg_util - 20) ELSE Max2(50, l.avg_util - 15)
        min_memory == IF is_daytime THEN Max2(1500, (l.avg_memory * 2) \div 10)
                                    ELSE Max2(2000, (l.avg_memory * 3) \div 10)
    IN [f \in ThresholdFields |->
            CASE f = "min_memory_mb" -> min_memory
              [] f = "max_utilization" -> 95
              [] f = "util_high_threshold" -> util_high
              [] f = "util_low_threshold" -> util_low
              [] f = "adaptive" -> TRUE]

adaptive_thresholds(l) ==
    LET is_daytime == 8 <= l.hour /\ l.hour <= 20
        util_high == IF is_daytime THEN Min2(95, l.avg_util + 15) ELSE Min2(90, l.avg_util + 10)
        util_low == IF is_daytime THEN Max2(40, l.avg_util - 20) ELSE Max2(50, l.avg_util - 15)
        min_memory == IF is_daytime THEN Max2(1500, (l.avg_memory * 2) \div 10)
                                    ELSE Max2(2000, (l.avg_memory * 3) \div 10)
    IN [f \in ThresholdFields |->
            CASE f = "min_memory_mb" -> Max2(1000, Min2(4000, min_memory))
              [] f = "max_utilization" -> 95
              [] f = "util_high_threshold" -> Max2(70, Min2(95, util_high))
              [] f = "util_low_threshold" -> Max2(30, Min2(60, util_low))
              [] f = "adaptive" -> TRUE]

\* raised: the call raises; saved: it wrote thresholds:current
get_adaptive_thresholds(cur, has_section, load) ==
    IF CurrentThresholdsRaises(cur, has_section)
    THEN [raised |-> TRUE, thresholds |-> NoHash, saved |-> FALSE]
    ELSE LET current == get_current_thresholds(cur) IN
         IF ~current["adaptive"] \/ load = <<>>
         THEN [raised |-> FALSE, thresholds |-> current, saved |-> FALSE]
         ELSE [raised |-> FALSE, thresholds |-> adaptive_thresholds(load[1]), saved |-> TRUE]

\* thresholds:current after the call (_save_thresholds is an hset)
SaveThresholds(cur, th) == IF th.saved THEN HSet(cur, th.thresholds) ELSE cur

(***************************************************************************)
(* ThresholdManager.get_adaptive_thresholds as a call on the store, and    *)
(* enable_adaptive, which passes only a reason on to adjust_thresholds.    *)
(***************************************************************************)
adaptive_call(load) ==
    LET th == get_adaptive_thresholds(thresholds_current, cfg_gpu_balancing, load) IN
    /\ thresholds_current' = SaveThresholds(thresholds_current, th)
    /\ lastThresholds' = [op |-> "get_adaptive_thresholds", load |-> load,
                          raised |-> th.raised, thresholds |-> th.thresholds,
                          saved |-> th.saved]
    /\ lastOp' = Result("get_adaptive_thresholds", 0, ~th.raised, {})
    /\ UNCHANGED <<now, cfg_gpu_balancing>>

enable_adaptive(enabled) ==
    /\ adjust_thresholds(NoHash)
    /\ lastThresholds' = [op |-> "enable_adaptive", enabled |-> enabled]

(***************************************************************************)
(* TaskScheduler.score_gpu for a GPU that has metrics m, with th the       *)
(* result of get_adaptive_thresholds.                                      *)
(***************************************************************************)
ScoreOf(m, th, has_section) ==
    LET util == m["utilization"]
        mem_free == m["memory_free_mb"]
        num_procs == m["num_processes"]
        temp == m["temperature"]
        min_memory == th.thresholds["min_memory_mb"]
        max_temp == config_thresholds.max_temperature
        util_score == FracMax(Whole(0), Frac(40 * (100 - util), 100))
        mem_counts == mem_free >= min_memory
        zero_division == mem_counts /\ 8000 - min_memory = 0
        mem_score == IF mem_counts
                     THEN FracMin(Whole(30), Frac(30 * (mem_free - min_memory), 8000 - min_memory))
                     ELSE Whole(0)
        proc_score == FracMax(Whole(0), Frac(20 * (5 - num_procs), 5))
        no_section == temp > 0 /\ ~has_section
        temp_score == IF temp > 0
                      THEN FracMax(Whole(0), Frac(10 * (max_temp - temp), max_temp))
                      ELSE Whole(0)
    IN  IF th.raised \/ zero_division \/ no_section
        THEN [raised |-> TRUE, score |-> Whole(0), mem_score |-> Whole(0)]
        ELSE [raised |-> FALSE,
              score |-> FracAdd(FracAdd(util_score, mem_score), FracAdd(proc_score, temp_score)),
              mem_score |-> mem_score]

score_gpu(gpu_id, load) ==
    LET m == get_gpu_metrics(gpu_id)
        th == get_adaptive_thresholds(thresholds_current, cfg_gpu_balancing, load)
    IN
    IF m = NoHash
    THEN /\ lastScore' = [gpu_id |-> gpu_id, found |-> FALSE, raised |-> FALSE,
                          score |-> Whole(0), mem_score |-> Whole(0)]
         /\ lastOp' = Result("score_gpu", gpu_id, TRUE, {})
         /\ UNCHANGED <<now, thresholds_current, cfg_gpu_balancing>>
    ELSE LET sc == ScoreOf(m, th, cfg_gpu_balancing) IN
         /\ lastScore' = [gpu_id |-> gpu_id, found |-> TRUE, raised |-> sc.raised,
                          score |-> sc.score, mem_score |-> sc.mem_score]
         /\ thresholds_current' = SaveThresholds(thresholds_current, th)
         /\ lastOp' = Result("score_gpu", gpu_id, ~sc.raised, {})
         /\ UNCHANGED <<now, cfg_gpu_balancing>>

(***************************************************************************)
(* TaskScheduler.allocate_gpu.  constraints is <<>> for None and <<c>> for *)
(* the dict c; the result is {} for None and {g} for GPU g.  Every         *)
(* exception inside is caught and turned into None.                        *)
(***************************************************************************)
ConstraintDicts ==
    { NoHash,
      [f \in {"min_memory_mb"} |-> 0],
      [f \in {"min_memory_mb", "max_utilization"} |-> IF f = "min_memory_mb" THEN 0 ELSE 50] }
    \cup { [f \in {"specific_gpu"} |-> g] : g \in GPUs }
    \cup { [f \in {"min_memory_mb", "max_utilization", "specific_gpu"} |->
                CASE f = "min_memory_mb" -> 0 [] f = "max_utilization" -> 50
                  [] f = "specific_gpu" -> g] : g \in GPUs }

Constraints == {<<>>} \cup {<<c>> : c \in ConstraintDicts}

\* scores.sort(key=score, reverse=True)[0]: the sort is stable, so among
\* equal scores the first of the ascending list stays in front
BestScored(gpus, scores) ==
    CHOOSE g \in gpus :
        \A h \in gpus :
            /\ FracLeq(scores[h].score, scores[g].score)
            /\ scores[h].score = scores[g].score => g <= h

allocate_gpu(constraints, load) ==
    LET th == get_adaptive_thresholds(thresholds_current, cfg_gpu_balancing, load)
        saved == SaveThresholds(thresholds_current, th)
        c == constraints[1]
        min_memory == IF "min_memory_mb" \in DOMAIN c THEN c["min_memory_mb"]
                                                      ELSE th.thresholds["min_memory_mb"]
        max_util == IF "max_utilization" \in DOMAIN c THEN c["max_utilization"]
                                                      ELSE th.thresholds["max_utilization"]
        available_gpus == get_available_gpus(metrics, min_memory, max_util)
        scores == [g \in available_gpus |->
                        ScoreOf(get_gpu_metrics(g),
                                get_adaptive_thresholds(saved, cfg_gpu_balancing, load),
                                cfg_gpu_balancing)]
        result ==
            IF th.raised \/ constraints = <<>> THEN {}
            ELSE IF available_gpus = {} THEN {}
            ELSE IF "specific_gpu" \in DOMAIN c /\ c["specific_gpu"] \in available_gpus
                 THEN {c["specific_gpu"]}
            ELSE IF \E g \in available_gpus : scores[g].raised THEN {}
            ELSE {BestScored(available_gpus, scores)}
    IN
    /\ lastAlloc' = [constraints |-> constraints, result |-> result]
    /\ thresholds_current' = saved
    /\ lastOp' = Result("allocate_gpu", 0, result # {}, result)
    /\ UNCHANGED <<now, cfg_gpu_balancing>>

(***************************************************************************)
(* TaskScheduler.allocate_gpus and recommend_allocation.  A list of GPU    *)
(* ids is a sequence.                                                      *)
(***************************************************************************)
\* the elements of a list
SeqRange(q) == {q[i] : i \in DOMAIN q}

\* the list get_available_gpus returns: sorted(available_gpus)
RECURSIVE Ascending(_)
Ascending(gpus) ==
    IF gpus = {} THEN <<>>
    ELSE LET least == CHOOSE g \in gpus : \A h \in gpus : g <= h
         IN <<least>> \o Ascending(gpus \ {least})

\* [s.gpu_id for s in scores] after scores.sort(key=score, reverse=True)
RECURSIVE SortedByScore(_, _)
SortedByScore(gpus, scores) ==
    IF gpus = {} THEN <<>>
    ELSE LET best == BestScored(gpus, scores)
         IN <<best>> \o SortedByScore(gpus \ {best}, scores)

\* the Python slice s[:count]
SliceTo(s, count) ==
    LET upto == IF count >= 0 THEN Min2(count, Len(s)) ELSE Max2(0, Len(s) + count)
    IN SubSeq(s, 1, upto)

\* the scores of the listed GPUs; every score_gpu call asks the threshold
\* manager again, which by then has saved what the first call computed
ScoresOf(gpus, saved, load) ==
    [g \in gpus |->
        ScoreOf(get_gpu_metrics(g),
                get_adaptive_thresholds(saved, cfg_gpu_balancing, load),
                cfg_gpu_balancing)]

Counts == {-1} \cup (1..NumGPUs)

allocate_gpus(count, constraints, load) ==
    LET th == get_adaptive_thresholds(thresholds_current, cfg_gpu_balancing, load)
        saved == SaveThresholds(thresholds_current, th)
        c == constraints[1]
        min_memory == IF "min_memory_mb" \in DOMAIN c THEN c["min_memory_mb"]
                                                      ELSE th.thresholds["min_memory_mb"]
        max_util == IF "max_utilization" \in DOMAIN c THEN c["max_utilization"]
                                                      ELSE th.thresholds["max_utilization"]
        available_gpus == get_available_gpus(metrics, min_memory, max_util)
        scores == ScoresOf(available_gpus, saved, load)
        n == IF count = -1 THEN Cardinality(available_gpus) ELSE count
        allocated ==
            IF th.raised \/ constraints = <<>> THEN <<>>
            ELSE IF available_gpus = {} THEN <<>>
            ELSE IF \E g \in available_gpus : scores[g].raised THEN <<>>
            ELSE SliceTo(SortedByScore(available_gpus, scores), n)
    IN
    /\ lastAlloc' = [constraints |-> constraints, count |-> count, allocated |-> allocated]
    /\ thresholds_current' = saved
    /\ lastOp' = Result("allocate_gpus", 0, allocated # <<>>, {allocated[i] : i \in DOMAIN allocated})
    /\ UNCHANGED <<now, cfg_gpu_balancing>>

\* one, more than the GPUs of the host, more than twice as many
NumTasks == {1, NumGPUs + 1, 2 * NumGPUs + 1}

\* the thresholds come from config.gpu_balancing['thresholds']; an exception
\* anywhere inside gives the strategy 'error'
recommend_allocation(num_tasks, load) ==
    LET available_gpus == get_available_gpus(metrics, config_thresholds.min_memory_mb,
                                             config_thresholds.max_utilization)
        num_available == Cardinality(available_gpus)
        th == get_adaptive_thresholds(thresholds_current, cfg_gpu_balancing, load)
        saved == SaveThresholds(thresholds_current, th)
        scores == ScoresOf(available_gpus, saved, load)
        scored == num_tasks > 2 * num_available
        rec ==
            IF ~cfg_gpu_balancing THEN [strategy |-> "error", gpu_ids |-> <<>>]
            ELSE IF available_gpus = {} THEN [strategy |-> "none", gpu_ids |-> <<>>]
            ELSE IF num_tasks <= num_available
                 THEN [strategy |-> "spread",
                       gpu_ids |-> SliceTo(Ascending(available_gpus), num_tasks)]
            ELSE IF num_tasks <= num_available * 2
                 THEN [strategy |-> "balanced", gpu_ids |-> Ascending(available_gpus)]
            ELSE IF th.raised \/ \E g \in available_gpus : scores[g].raised
                 THEN [strategy |-> "error", gpu_ids |-> <<>>]
            ELSE [strategy |-> "concentrate",
                  gpu_ids |-> SliceTo(SortedByScore(available_gpus, scores),
                                      Max2(1, num_available \div 2))]
    IN
    /\ lastAlloc' = [num_tasks |-> num_tasks, strategy |-> rec.strategy, gpu_ids |-> rec.gpu_ids]
    /\ thresholds_current' =
            IF cfg_gpu_balancing /\ available_gpus # {} /\ scored THEN saved
            ELSE thresholds_current
    /\ lastOp' = Result("recommend_allocation", 0, rec.strategy # "error",
                        {rec.gpu_ids[i] : i \in DOMAIN rec.gpu_ids})
    /\ UNCHANGED <<now, cfg_gpu_balancing>>

(***************************************************************************)
(* LoadBalancer: GPUStatus and detect_imbalance.  None is the empty set    *)
(* and a value v that is present is {v}.                                   *)
(***************************************************************************)
Strategies == {"no_migration", "process_migration"}

\* memory_used_mb / memory_total_mb divides by zero
StatusRaises(m) == m["memory_total_mb"] = 0

is_overloaded(m) ==
    \/ m["utilization"] > 85
    \/ m["memory_used_mb"] * 10 > m["memory_total_mb"] * 9

is_idle(m) == m["utilization"] < 50 /\ m["memory_free_mb"] > 2000

\* (utilization + memory_used_mb / memory_total_mb * 100) / 2
load_score(m) ==
    Frac(m["utilization"] * m["memory_total_mb"] + 100 * m["memory_used_mb"],
         2 * m["memory_total_mb"])

\* the dict of lines 159-165 and 228-234
NoImbalance ==
    [is_imbalanced |-> FALSE, overloaded_gpus |-> <<>>, idle_gpus |-> <<>>, details |-> NoHash]

\* lines 167-224, for a dict that is not empty: a GPUStatus property that
\* divides by zero, and avg_load read at line 214 when a single GPU never
\* assigned it, end in the except branch
DetectReport(metrics_dict) ==
    LET ids == DOMAIN metrics_dict
        overloaded == Ascending({g \in ids : is_overloaded(metrics_dict[g])})
        idle == Ascending({g \in ids : is_idle(metrics_dict[g])})
    IN  IF (\E g \in ids : StatusRaises(metrics_dict[g])) \/ Cardinality(ids) = 1
        THEN NoImbalance
        ELSE [is_imbalanced |-> overloaded # <<>> /\ idle # <<>>,
              overloaded_gpus |-> overloaded,
              idle_gpus |-> idle,
              details |-> [g \in ids |-> load_score(metrics_dict[g])]]

\* what detect_imbalance returns when its monitor_once has raised or has
\* returned metrics_dict
Detected(raised, metrics_dict) ==
    IF raised THEN NoImbalance
    ELSE IF DOMAIN metrics_dict = {} THEN NoImbalance
    ELSE DetectReport(metrics_dict)

detect_imbalance(host) ==
    /\ monitor_once(host)
    /\ lastBalance' = [op |-> "detect_imbalance", host |-> host,
                       info |-> Detected(lastTick'.raised, lastTick'.metrics_dict)]
    /\ UNCHANGED <<paused, preferred>>

(***************************************************************************)
(* A GPUStatus built from the metrics of one GPU, and its properties.      *)
(* is_overloaded divides only when the utilization test fails.             *)
(***************************************************************************)
GPUStatus(gpu_id, m) ==
    [gpu_id |-> gpu_id, metrics |-> m,
     raises |-> m["utilization"] <= 85 /\ m["memory_total_mb"] = 0,
     is_overloaded |-> is_overloaded(m),
     is_idle |-> is_idle(m)]

gpu_status(gpu_id, r) ==
    /\ lastBalance' = [op |-> "GPUStatus", status |-> GPUStatus(gpu_id, collect_gpu_metrics(gpu_id, r))]
    /\ lastOp' = Result("GPUStatus", 0, TRUE, {})
    /\ UNCHANGED <<now, paused, preferred>>

(***************************************************************************)
(* LoadBalancer.create_rebalance_plan.  An imbalance report names GPUs by  *)
(* id; the ids of a report a caller builds are not bound to the GPUs of    *)
(* this host.                                                              *)
(***************************************************************************)
FleetGPUs == 0..(MaxFleet - 1)

RebalanceAction(action_type, source_gpu, target_gpu, process_id, priority) ==
    [action_type |-> action_type, source_gpu |-> source_gpu, target_gpu |-> target_gpu,
     process_id |-> process_id, priority |-> priority]

\* the encourage_new_tasks actions left out
NoMigrationActions_pause_only(overloaded, idle) ==
    [i \in 1..Len(overloaded) |->
        RebalanceAction("pause_new_tasks", {overloaded[i]}, {}, {}, 7)]

NoMigrationActions(overloaded, idle) ==
    [i \in 1..Len(overloaded) |->
        RebalanceAction("pause_new_tasks", {overloaded[i]}, {}, {}, 7)]
    \o [i \in 1..Len(idle) |->
        RebalanceAction("encourage_new_tasks", {}, {idle[i]}, {}, 5)]

\* max(overloaded, key=load_score): the first of the list among the highest
HighestLoad(overloaded, details) ==
    overloaded[CHOOSE i \in DOMAIN overloaded :
                  \A j \in DOMAIN overloaded :
                      /\ FracLeq(details[overloaded[j]], details[overloaded[i]])
                      /\ details[overloaded[j]] = details[overloaded[i]] => i <= j]

\* list.remove(x)
Remove(list, x) == SelectSeq(list, LAMBDA y : y # x)

\* the processes the tracker lists for a GPU; a GPU it has no set for has none
ProcessesOn(g) == IF g \in GPUs THEN get_processes_by_gpu(process, gpu_processes, g) ELSE {}

\* min(processes, key=priority) returns the first of the lowest priority in
\* the order smembers listed the pids, which the store does not specify:
\* a pick names, for every GPU that has processes, one of its lowest
LowestPriority(pids) ==
    {p \in pids : \A q \in pids : process[p]["priority"] <= process[q]["priority"]}

Picks ==
    {pick \in [GPUs -> Pids \cup {0}] :
        \A g \in GPUs : IF ProcessesOn(g) = {} THEN pick[g] = 0
                        ELSE pick[g] \in LowestPriority(ProcessesOn(g))}

\* the loop over idle of lines 288-317
RECURSIVE MigrationActions(_, _, _, _)
MigrationActions(idle, overloaded, details, pick) ==
    IF idle = <<>> \/ overloaded = <<>> THEN <<>>
    ELSE LET source_gpu == HighestLoad(overloaded, details)
             rest == MigrationActions(Tail(idle), Remove(overloaded, source_gpu), details, pick)
         IN IF ProcessesOn(source_gpu) = {}
            THEN rest
            ELSE <<RebalanceAction("migrate_process", {source_gpu}, {Head(idle)},
                                   {pick[source_gpu]}, 8)>> \o rest

\* actions.sort(key=priority, reverse=True), a stable sort
RECURSIVE SortByPriority(_)
SortByPriority(actions) ==
    IF actions = <<>> THEN <<>>
    ELSE LET i == CHOOSE k \in DOMAIN actions :
                    \A j \in DOMAIN actions :
                        /\ actions[j].priority <= actions[k].priority
                        /\ actions[j].priority = actions[k].priority => k <= j
         IN <<actions[i]>>
            \o SortByPriority(SubSeq(actions, 1, i - 1) \o SubSeq(actions, i + 1, Len(actions)))

PlanActions(info, strategy, pick) ==
    IF info.overloaded_gpus = <<>> \/ info.idle_gpus = <<>> THEN <<>>
    ELSE SortByPriority(
            IF strategy = "no_migration"
            THEN NoMigrationActions(info.overloaded_gpus, info.idle_gpus)
            ELSE MigrationActions(info.idle_gpus, info.overloaded_gpus, info.details, pick))

\* the list `overloaded` when the loop over idle of lines 288-317 is left:
\* every pass that does not break removes its source GPU
RECURSIVE OverloadedLeft(_, _, _)
OverloadedLeft(idle, overloaded, details) ==
    IF idle = <<>> \/ overloaded = <<>> THEN overloaded
    ELSE OverloadedLeft(Tail(idle), Remove(overloaded, HighestLoad(overloaded, details)), details)

\* the caller's report after the call: `overloaded` is the report's own list
\* (line 252), so what the migration branch removes is removed from the report
ReportAfter(info, strategy) ==
    IF info.overloaded_gpus = <<>> \/ info.idle_gpus = <<>> \/ strategy = "no_migration"
    THEN info
    ELSE [info EXCEPT !.overloaded_gpus =
                OverloadedLeft(info.idle_gpus, info.overloaded_gpus, info.details)]

create_rebalance_plan(info, strategy, pick) ==
    /\ lastPlan' = [info |-> info, strategy |-> strategy,
                    actions |-> PlanActions(info, strategy, pick),
                    info_after |-> ReportAfter(info, strategy)]
    /\ lastOp' = Result("create_rebalance_plan", 0, TRUE, {})
    /\ UNCHANGED <<now, paused, preferred>>

(***************************************************************************)
(* LoadBalancer.execute_action / _migrate_process / balance_once /         *)
(* clear_balance_flags.  execute_action catches every exception and        *)
(* answers False.                                                          *)
(***************************************************************************)
\* a train process is moved
migrate_process_moves(proc, pid) ==
    IF ~HasInfo(proc, pid) THEN FALSE
    ELSE IF proc[pid]["proc_type"] = "collect" THEN FALSE
    ELSE IF proc[pid]["proc_type"] = "train" THEN TRUE
    ELSE FALSE

migrate_process(proc, pid) ==
    IF ~HasInfo(proc, pid) THEN FALSE
    ELSE IF proc[pid]["proc_type"] = "collect" THEN FALSE
    ELSE IF proc[pid]["proc_type"] = "train" THEN FALSE
    ELSE FALSE

\* the read of config.gpu_balancing raises when the config has no such section
MigrationRefused == ~cfg_gpu_balancing \/ ~cfg_enable_migration

ExecuteResult(action) ==
    CASE action.action_type = "pause_new_tasks" -> TRUE
      [] action.action_type = "encourage_new_tasks" -> TRUE
      [] action.action_type = "migrate_process" ->
            /\ ~MigrationRefused
            /\ action.process_id # {}
            /\ \E pid \in action.process_id : pid \in Pids /\ migrate_process(process, pid)
      [] OTHER -> FALSE

PausedBy(action) ==
    IF action.action_type = "pause_new_tasks" THEN action.source_gpu ELSE {}

PreferredBy(action) ==
    IF action.action_type = "encourage_new_tasks" THEN action.target_gpu ELSE {}

execute_action(action) ==
    /\ paused' = paused \cup PausedBy(action)
    /\ preferred' = preferred \cup PreferredBy(action)
    /\ lastExec' = [action |-> action, ok |-> ExecuteResult(action)]
    /\ lastOp' = Result("execute_action", 0, ExecuteResult(action), {})
    /\ UNCHANGED now

balance_once(host, strategy, pick) ==
    /\ monitor_once(host)
    /\ LET info == Detected(lastTick'.raised, lastTick'.metrics_dict)
           actions == PlanActions(info, strategy, pick)
           executed == Cardinality({i \in DOMAIN actions : ExecuteResult(actions[i])})
           ran == info.is_imbalanced /\ actions # <<>>
       IN /\ paused' = IF ran THEN paused \cup UNION {PausedBy(actions[i]) : i \in DOMAIN actions}
                              ELSE paused
          /\ preferred' = IF ran
                          THEN preferred \cup UNION {PreferredBy(actions[i]) : i \in DOMAIN actions}
                          ELSE preferred
          /\ lastBalance' =
                [op |-> "balance_once", host |-> host, info |-> info, strategy |-> strategy,
                 actions |-> IF info.is_imbalanced THEN actions ELSE <<>>,
                 balanced |-> IF ~info.is_imbalanced THEN TRUE ELSE ran /\ executed > 0,
                 actions_taken |-> IF ran THEN executed ELSE 0]

clear_balance_flags ==
    /\ paused' = {}
    /\ preferred' = {}
    /\ lastOp' = Result("clear_balance_flags", 0, TRUE, {})
    /\ UNCHANGED now

(***************************************************************************)
(* BalanceDaemon.check_and_balance / _record_balance_history and the       *)
(* cycle of run().  The history entry's mapping holds the details  *)
(* dict: a store client either encodes it or rejects it, and the rejection *)
(* is caught and logged (line 137).                                        *)
(***************************************************************************)
history_trim == 1001

\* zremrangebyrank(index, 0, -history_trim): the entries from the oldest up
\* to the one that has history_trim - 1 newer ones are removed
KeepRecent(index) ==
    {t \in index : Cardinality({u \in index : u > t}) < history_trim - 1}

\* the key is balance:history:{int(time.time())}
record_balance_history(index, t, accepted) ==
    IF accepted THEN KeepRecent(index \cup {t}) ELSE index

check_and_balance(host, pick, accepted) ==
    /\ balance_once(host, daemon.strategy, pick)
    /\ IF lastBalance'.balanced
       THEN /\ balance_count' = balance_count + 1
            /\ history_index' = record_balance_history(history_index, now, accepted)
       ELSE UNCHANGED <<balance_count, history_index>>

\* self.check_and_balance() inside the while of run()
run_cycle(host, pick, accepted) ==
    /\ daemon.pc = "cycle"
    /\ check_and_balance(host, pick, accepted)
    /\ daemon' = [daemon EXCEPT !.pc = "wait",
                                !.last = IF lastBalance'.balanced THEN "balanced"
                                                                   ELSE "not_balanced"]
    /\ UNCHANGED stop_event

(***************************************************************************)
(* Specifications.                                                         *)
(***************************************************************************)
TrackerInit ==
    /\ process = [p \in Pids |-> NoHash]
    /\ gpu_processes = [g \in GPUs |-> {}]
    /\ registry = NoHash

MonitorInit ==
    /\ metrics = [g \in GPUs |-> NoHash]
    /\ metrics_exp = [g \in GPUs |-> {}]
    /\ available = {}
    /\ available_exp = {}
    /\ lastTick = [count |-> 0, metrics_dict |-> NoHash, available_gpus |-> {}, raised |-> FALSE]

RaceInit ==
    /\ pub = [i \in Publishers |-> [pc |-> "idle", available_gpus |-> {}, replaced |-> {}]]
    /\ ticks = {}
    /\ sweep = SweepIdle({})

ThresholdInit ==
    /\ thresholds_current = NoHash
    /\ lastThresholds = NoHash
    /\ cfg_gpu_balancing \in BOOLEAN

Programs == {"gpu_monitor", "balance_daemon"}

LoopInit ==
    /\ program = "gpu_monitor"
    /\ running = FALSE
    /\ monitor_thread = {}
    /\ loop = [t \in Threads |-> "unborn"]
    /\ caller = "idle"

SchedInit ==
    /\ lastScore = NoHash
    /\ lastAlloc = NoHash

DaemonInit ==
    /\ stop_event = FALSE
    /\ daemon = [pc |-> "new", status |-> "none", last |-> "none", strategy |-> "no_migration"]

BalanceInit ==
    /\ paused = {}
    /\ preferred = {}
    /\ lastPlan = NoHash
    /\ lastExec = NoHash
    /\ lastBalance = NoHash
    /\ balance_count = 0
    /\ history_index = {}
    /\ cfg_enable_migration = FALSE

Register ==
    /\ \E pid \in Pids, g \in GPUs, ty \in ProcTypes, pr \in Priorities :
            register_process(pid, g, ty, pr)
    /\ UNCHANGED <<monitorVars, thresholdVars, raceVars, loopVars, daemonVars, schedVars, balanceVars>>

Heartbeat ==
    /\ \E pid \in Pids, kw \in HeartbeatKwargs : update_heartbeat(pid, kw)
    /\ UNCHANGED <<monitorVars, thresholdVars, raceVars, loopVars, daemonVars, schedVars, balanceVars>>

Scan ==
    /\ check_heartbeats
    /\ UNCHANGED <<monitorVars, thresholdVars, raceVars, loopVars, daemonVars, schedVars, balanceVars>>

Reap ==
    /\ cleanup_stale_processes
    /\ UNCHANGED <<monitorVars, thresholdVars, raceVars, loopVars, daemonVars, schedVars, balanceVars>>

Unregister ==
    /\ \E pid \in Pids : unregister_process(pid)
    /\ UNCHANGED <<monitorVars, thresholdVars, raceVars, loopVars, daemonVars, schedVars, balanceVars>>

Tick ==
    /\ now < MaxTicks * TickSeconds
    /\ now' = now + TickSeconds
    /\ lastOp' = Result("tick", 0, TRUE, {})
    /\ UNCHANGED <<trackerVars, monitorVars, thresholdVars, raceVars, loopVars, daemonVars, schedVars, balanceVars>>

Init ==
    /\ now = 0
    /\ lastOp = Result("init", 0, TRUE, {})
    /\ TrackerInit
    /\ MonitorInit
    /\ thresholds_current = NoHash
    /\ lastThresholds = NoHash
    /\ cfg_gpu_balancing = FALSE
    /\ RaceInit
    /\ LoopInit
    /\ DaemonInit
    /\ SchedInit
    /\ BalanceInit

Next ==
    \/ Register
    \/ Heartbeat
    \/ Scan
    \/ Reap
    \/ Unregister
    \/ Tick

Spec == Init /\ [][Next]_vars

(***************************************************************************)
(* The monitor, the threshold manager and the store's clock.               *)
(***************************************************************************)
MonitorOnce ==
    /\ \E host \in Hosts : monitor_once(host)
    /\ UNCHANGED <<trackerVars, thresholdVars, raceVars, loopVars, daemonVars, schedVars, balanceVars>>

Elapse ==
    /\ elapse
    /\ UNCHANGED <<trackerVars, thresholdVars, raceVars, loopVars, daemonVars, schedVars, balanceVars>>

AdjustThresholds ==
    /\ \E args \in AdjustArgs : adjust_thresholds(args)
    /\ UNCHANGED lastThresholds
    /\ UNCHANGED <<trackerVars, monitorVars, raceVars, loopVars, daemonVars, schedVars, balanceVars>>

InitMonitor ==
    /\ now = 0
    /\ lastOp = Result("init", 0, TRUE, {})
    /\ TrackerInit
    /\ MonitorInit
    /\ ThresholdInit
    /\ RaceInit
    /\ LoopInit
    /\ DaemonInit
    /\ SchedInit
    /\ BalanceInit

NextMonitor ==
    \/ MonitorOnce
    \/ Elapse
    \/ AdjustThresholds

SpecMonitor == InitMonitor /\ [][NextMonitor]_vars

(***************************************************************************)
(* Two publishers of gpu:available and a reader, interleaved.              *)
(***************************************************************************)
PubBegin ==
    /\ \E i \in Publishers, host \in Hosts : pub_begin(i, host)
    /\ UNCHANGED <<trackerVars, thresholdVars, metrics, metrics_exp, lastTick,
                 loopVars, daemonVars, schedVars, balanceVars>>

PubDelete ==
    /\ \E i \in Publishers : pub_delete(i)
    /\ UNCHANGED <<trackerVars, thresholdVars, metrics, metrics_exp, lastTick,
                 loopVars, daemonVars, schedVars, balanceVars>>

PubSadd ==
    /\ \E i \in Publishers : pub_sadd(i)
    /\ UNCHANGED <<trackerVars, thresholdVars, metrics, metrics_exp, lastTick,
                 loopVars, daemonVars, schedVars, balanceVars>>

PubExpire ==
    /\ \E i \in Publishers : pub_expire(i)
    /\ UNCHANGED <<trackerVars, thresholdVars, metrics, metrics_exp, lastTick,
                 loopVars, daemonVars, schedVars, balanceVars>>

ReadAvailable ==
    /\ read_available
    /\ UNCHANGED <<trackerVars, thresholdVars, metrics, metrics_exp, lastTick,
                 loopVars, daemonVars, schedVars, balanceVars>>

InitRace ==
    /\ now = 0
    /\ lastOp = Result("init", 0, TRUE, {})
    /\ TrackerInit
    /\ MonitorInit
    /\ thresholds_current = NoHash
    /\ lastThresholds = NoHash
    /\ cfg_gpu_balancing = FALSE
    /\ RaceInit
    /\ LoopInit
    /\ DaemonInit
    /\ SchedInit
    /\ BalanceInit

NextRace ==
    \/ PubBegin
    \/ PubDelete
    \/ PubSadd
    \/ PubExpire
    \/ ReadAvailable

SpecRace == InitRace /\ [][NextRace]_vars

(***************************************************************************)
(* The monitor's background loop and the balance daemon's loop.  The       *)
(* threads of the loops are scheduled by the operating system: each one    *)
(* that can take a step eventually takes it.  Calls of start() and stop()  *)
(* and the delivery of a signal are up to the environment.                 *)
(***************************************************************************)
notLoopVars == <<trackerVars, thresholdVars, raceVars, daemonVars, schedVars, balanceVars>>
notDaemonVars == <<trackerVars, monitorVars, thresholdVars, raceVars, loopVars, schedVars, balanceVars>>

Start ==
    /\ start
    /\ UNCHANGED <<monitorVars, notLoopVars>>

Stop ==
    /\ stop
    /\ UNCHANGED <<monitorVars, notLoopVars>>

JoinReturn ==
    /\ join_return
    /\ UNCHANGED <<monitorVars, notLoopVars>>

LoopStep(t) ==
    /\ \/ loop_check(t)
       \/ \E host \in LoopHosts : loop_tick(t, host)
       \/ loop_sleep(t)
    /\ UNCHANGED notLoopVars

LoopCheck ==
    /\ \E t \in Threads : loop_check(t)
    /\ UNCHANGED notLoopVars

LoopTick ==
    /\ \E t \in Threads, host \in LoopHosts : loop_tick(t, host)
    /\ UNCHANGED notLoopVars

LoopSleep ==
    /\ \E t \in Threads : loop_sleep(t)
    /\ UNCHANGED notLoopVars

Signal ==
    /\ signal_handler
    /\ UNCHANGED notDaemonVars

DaemonRun ==
    /\ run_begin
    /\ UNCHANGED notDaemonVars

DaemonCheck ==
    /\ run_check
    /\ UNCHANGED notDaemonVars

DaemonCycle ==
    /\ \E host \in LoopHosts, pick \in Picks, accepted \in BOOLEAN :
            run_cycle(host, pick, accepted)
    /\ UNCHANGED <<trackerVars, thresholdVars, raceVars, loopVars, schedVars,
                 lastPlan, lastExec, cfg_enable_migration>>

DaemonWait ==
    /\ run_wait
    /\ UNCHANGED notDaemonVars

DaemonCleanup ==
    /\ daemon_cleanup
    /\ UNCHANGED notDaemonVars

DaemonStep == DaemonRun \/ DaemonCheck \/ DaemonCycle \/ DaemonWait \/ DaemonCleanup

InitLoop ==
    /\ now = 0
    /\ lastOp = Result("init", 0, TRUE, {})
    /\ TrackerInit
    /\ MonitorInit
    /\ thresholds_current = NoHash
    /\ lastThresholds = NoHash
    /\ program \in Programs
    /\ cfg_gpu_balancing \in (IF program = "balance_daemon" THEN BOOLEAN ELSE {FALSE})
    /\ RaceInit
    /\ running = FALSE
    /\ monitor_thread = {}
    /\ loop = [t \in Threads |-> "unborn"]
    /\ caller = "idle"
    /\ stop_event = FALSE
    /\ daemon \in {[pc |-> "new", status |-> "none", last |-> "none", strategy |-> st] :
                        st \in (IF program = "balance_daemon" THEN Strategies
                                                             ELSE {"no_migration"})}
    /\ SchedInit
    /\ BalanceInit

NextLoop ==
    \/ Start
    \/ Stop
    \/ JoinReturn
    \/ LoopCheck
    \/ LoopTick
    \/ LoopSleep
    \/ Signal
    \/ DaemonRun
    \/ DaemonCheck
    \/ DaemonCycle
    \/ DaemonWait
    \/ DaemonCleanup

SpecLoop == InitLoop /\ [][NextLoop]_vars

SpecLoopFair ==
    /\ InitLoop
    /\ [][NextLoop]_vars
    /\ \A t \in Threads : WF_vars(LoopStep(t))
    /\ WF_vars(DaemonStep)

(***************************************************************************)
(* The scheduler, on a store that a monitor publishes to and whose         *)
(* thresholds an operator adjusts.                                         *)
(***************************************************************************)
notSchedVars == <<trackerVars, raceVars, loopVars, daemonVars, balanceVars>>

\* the hosts whose ticks publish the metrics the scheduler reads: every
\* query of every detected GPU answered
SchedHosts == {host \in Hosts : \A g \in DOMAIN host : host[g].util # <<>>}

SchedMonitorOnce ==
    /\ \E host \in SchedHosts : monitor_once(host)
    /\ lastScore' = NoHash
    /\ lastAlloc' = NoHash
    /\ UNCHANGED <<thresholdVars, notSchedVars>>

SchedAdjustThresholds ==
    /\ \E args \in AdjustArgs : adjust_thresholds(args)
    /\ lastScore' = NoHash
    /\ lastAlloc' = NoHash
    /\ UNCHANGED lastThresholds
    /\ UNCHANGED <<monitorVars, notSchedVars>>

ScoreGpu ==
    /\ \E gpu_id \in GPUs, load \in HourLoads : score_gpu(gpu_id, load)
    /\ lastAlloc' = NoHash
    /\ UNCHANGED lastThresholds
    /\ UNCHANGED <<monitorVars, notSchedVars>>

AllocateGpu ==
    /\ \E constraints \in Constraints, load \in HourLoads : allocate_gpu(constraints, load)
    /\ lastScore' = NoHash
    /\ UNCHANGED lastThresholds
    /\ UNCHANGED <<monitorVars, notSchedVars>>

InitSched ==
    /\ now = 0
    /\ lastOp = Result("init", 0, TRUE, {})
    /\ TrackerInit
    /\ MonitorInit
    /\ ThresholdInit
    /\ RaceInit
    /\ LoopInit
    /\ DaemonInit
    /\ SchedInit
    /\ BalanceInit

NextSched ==
    \/ SchedMonitorOnce
    \/ SchedAdjustThresholds
    \/ ScoreGpu
    \/ AllocateGpu

SpecSched == InitSched /\ [][NextSched]_vars

(***************************************************************************)
(* The scheduler's list operations, on a store that a monitor publishes    *)
(* to.  allocate_gpus does not read specific_gpu.                          *)
(***************************************************************************)
ManyConstraints == {cs \in Constraints : cs = <<>> \/ "specific_gpu" \notin DOMAIN cs[1]}

ManyMonitorOnce ==
    /\ \E host \in SchedHosts : monitor_once(host)
    /\ lastAlloc' = NoHash
    /\ UNCHANGED <<thresholdVars, lastScore, notSchedVars>>

AllocateGpus ==
    /\ \E count \in Counts, constraints \in ManyConstraints, load \in HourLoads :
            allocate_gpus(count, constraints, load)
    /\ UNCHANGED lastThresholds
    /\ UNCHANGED <<monitorVars, lastScore, notSchedVars>>

RecommendAllocation ==
    /\ \E num_tasks \in NumTasks, load \in HourLoads : recommend_allocation(num_tasks, load)
    /\ UNCHANGED lastThresholds
    /\ UNCHANGED <<monitorVars, lastScore, notSchedVars>>

NextMany ==
    \/ ManyMonitorOnce
    \/ AllocateGpus
    \/ RecommendAllocation

SpecMany == InitSched /\ [][NextMany]_vars

(***************************************************************************)
(* create_rebalance_plan on reports a caller builds, as the planning test  *)
(* does, over the processes the tracker holds.  A process registers once,  *)
(* with one of two priorities.                                             *)
(***************************************************************************)
PlanPriorities == {3, 5}

\* the load_score entries of a report: falling or rising with the GPU id
LoadProfiles ==
    {[g \in FleetGPUs |-> Whole(90 - 10 * g)], [g \in FleetGPUs |-> Whole(60 + 10 * g)]}

PlanReports ==
    {[is_imbalanced |-> O # {} /\ I # {},
      overloaded_gpus |-> Ascending(O),
      idle_gpus |-> Ascending(I),
      details |-> d] : O \in SUBSET FleetGPUs, I \in SUBSET FleetGPUs, d \in LoadProfiles}

\* a report that lists no GPU twice
OneListing(info) == SeqRange(info.overloaded_gpus) \cap SeqRange(info.idle_gpus) = {}

notPlanVars ==
    <<monitorVars, thresholdVars, raceVars, loopVars, daemonVars, schedVars,
      lastExec, lastBalance, balance_count, history_index, cfg_enable_migration>>

PlanRegister ==
    /\ \E pid \in Pids, gpu_id \in GPUs, priority \in PlanPriorities :
            /\ process[pid] = NoHash
            /\ register_process(pid, gpu_id, "collect", priority)
    /\ lastPlan' = NoHash
    /\ UNCHANGED <<paused, preferred, notPlanVars>>

CreatePlan ==
    /\ \E info \in PlanReports, strategy \in Strategies, pick \in Picks :
            /\ OneListing(info)
            /\ create_rebalance_plan(info, strategy, pick)
    /\ UNCHANGED <<trackerVars, notPlanVars>>

InitPlan ==
    /\ now = 0
    /\ lastOp = Result("init", 0, TRUE, {})
    /\ TrackerInit
    /\ MonitorInit
    /\ thresholds_current = NoHash
    /\ lastThresholds = NoHash
    /\ cfg_gpu_balancing = FALSE
    /\ RaceInit
    /\ LoopInit
    /\ DaemonInit
    /\ SchedInit
    /\ BalanceInit

NextPlan ==
    \/ PlanRegister
    \/ CreatePlan

SpecPlan == InitPlan /\ [][NextPlan]_vars

(***************************************************************************)
(* The load balancer on a host: detect_imbalance and balance_once over     *)
(* the readings of the host, execute_action on actions a caller builds,    *)
(* as the execution test does, and clear_balance_flags.  The config may    *)
(* carry a gpu_balancing section, with migration enabled or not.           *)
(***************************************************************************)
BalanceProcTypes == {"collect", "train", "other"}

\* no GPU, or up to two GPUs of which GPU 0 is the busy one
BalanceHosts ==
    {host \in SchedHosts :
        /\ Cardinality(DOMAIN host) <= 2
        /\ \A g \in DOMAIN host : g = 0 => host[g].util = <<95>>}

ExecActions ==
    {RebalanceAction("pause_new_tasks", {0}, {}, {}, 7),
     RebalanceAction("encourage_new_tasks", {}, {1}, {}, 5),
     RebalanceAction("defragment", {0}, {1}, {}, 1)}
    \cup {RebalanceAction("migrate_process", {0}, {1}, {pid}, 8) : pid \in Pids}

notBalanceVars ==
    <<thresholdVars, raceVars, loopVars, daemonVars, schedVars,
      lastPlan, balance_count, history_index, cfg_enable_migration>>

ExecRegister ==
    /\ \E pid \in Pids, proc_type \in BalanceProcTypes :
            /\ process[pid] = NoHash
            /\ register_process(pid, 0, proc_type, 5)
    /\ lastExec' = NoHash
    /\ lastBalance' = NoHash
    /\ UNCHANGED <<monitorVars, paused, preferred, notBalanceVars>>

ExecuteAction ==
    /\ \E action \in ExecActions : execute_action(action)
    /\ lastBalance' = NoHash
    /\ UNCHANGED <<trackerVars, monitorVars, notBalanceVars>>

DetectImbalance ==
    /\ \E host \in BalanceHosts : detect_imbalance(host)
    /\ lastExec' = NoHash
    /\ UNCHANGED <<trackerVars, notBalanceVars>>

BalanceOnce ==
    /\ \E host \in BalanceHosts, strategy \in Strategies, pick \in Picks :
            balance_once(host, strategy, pick)
    /\ lastExec' = NoHash
    /\ UNCHANGED <<trackerVars, notBalanceVars>>

ClearBalanceFlags ==
    /\ clear_balance_flags
    /\ lastExec' = NoHash
    /\ lastBalance' = NoHash
    /\ UNCHANGED <<trackerVars, monitorVars, notBalanceVars>>

InitBalance ==
    /\ now = 0
    /\ lastOp = Result("init", 0, TRUE, {})
    /\ TrackerInit
    /\ MonitorInit
    /\ thresholds_current = NoHash
    /\ lastThresholds = NoHash
    /\ cfg_gpu_balancing \in BOOLEAN
    /\ cfg_enable_migration \in (IF cfg_gpu_balancing THEN BOOLEAN ELSE {FALSE})
    /\ RaceInit
    /\ LoopInit
    /\ DaemonInit
    /\ SchedInit
    /\ paused = {}
    /\ preferred = {}
    /\ lastPlan = NoHash
    /\ lastExec = NoHash
    /\ lastBalance = NoHash
    /\ balance_count = 0
    /\ history_index = {}

NextBalance ==
    \/ ExecRegister
    \/ ExecuteAction
    \/ DetectImbalance
    \/ BalanceOnce
    \/ ClearBalanceFlags

SpecBalance == InitBalance /\ [][NextBalance]_vars

(***************************************************************************)
(* The threshold manager: adjust_thresholds, enable_adaptive and           *)
(* get_adaptive_thresholds over the averages of the current hour's         *)
(* pattern, by day and by night.                                           *)
(***************************************************************************)
AdaptHours == {2, 7, 8, 14, 20, 21}
AdaptUtils == {0, 25, 50, 60, 75, 80, 100}
AdaptMemories == {0, 5000, 8000, 16000, 24000}

AdaptLoads ==
    {<<>>} \cup {<<[hour |-> h, avg_util |-> u, avg_memory |-> mem]>> :
                    h \in AdaptHours, u \in AdaptUtils, mem \in AdaptMemories}

notAdaptVars ==
    <<trackerVars, monitorVars, raceVars, loopVars, daemonVars, schedVars, balanceVars>>

AdaptAdjustThresholds ==
    /\ \E args \in AdjustArgs : adjust_thresholds(args)
    /\ lastThresholds' = NoHash
    /\ UNCHANGED notAdaptVars

EnableAdaptive ==
    /\ \E enabled \in BOOLEAN : enable_adaptive(enabled)
    /\ UNCHANGED notAdaptVars

GetAdaptiveThresholds ==
    /\ \E load \in AdaptLoads : adaptive_call(load)
    /\ UNCHANGED notAdaptVars

NextAdapt ==
    \/ AdaptAdjustThresholds
    \/ EnableAdaptive
    \/ GetAdaptiveThresholds

SpecAdapt == InitSched /\ [][NextAdapt]_vars

(***************************************************************************)
(* The scheduler next to the load balancer's markers: the monitor          *)
(* publishes, execute_action and clear_balance_flags write the marker      *)
(* sets, and the scheduler is asked again in between.  No pattern exists   *)
(* for the current hour, so the scheduler's calls leave the thresholds.    *)
(***************************************************************************)
MarkConstraints == {<<>>, <<[f \in {"min_memory_mb"} |-> 0]>>}

MarkActions ==
    {RebalanceAction("pause_new_tasks", {0}, {}, {}, 7),
     RebalanceAction("encourage_new_tasks", {}, {0}, {}, 5)}

notMarkVars ==
    <<trackerVars, raceVars, loopVars, daemonVars, lastScore,
      lastPlan, lastBalance, balance_count, history_index, cfg_enable_migration>>

MarkMonitorOnce ==
    /\ \E host \in BalanceHosts : monitor_once(host)
    /\ lastAlloc' = NoHash
    /\ lastExec' = NoHash
    /\ UNCHANGED <<thresholdVars, paused, preferred, notMarkVars>>

MarkExecuteAction ==
    /\ \E action \in MarkActions : execute_action(action)
    /\ UNCHANGED <<monitorVars, thresholdVars, lastAlloc, notMarkVars>>

MarkClearFlags ==
    /\ clear_balance_flags
    /\ lastExec' = NoHash
    /\ UNCHANGED <<monitorVars, thresholdVars, lastAlloc, notMarkVars>>

MarkAllocateGpu ==
    /\ \E constraints \in MarkConstraints : allocate_gpu(constraints, <<>>)
    /\ lastExec' = NoHash
    /\ UNCHANGED <<monitorVars, lastThresholds, paused, preferred, notMarkVars>>

MarkAllocateGpus ==
    /\ \E count \in Counts, constraints \in MarkConstraints :
            allocate_gpus(count, constraints, <<>>)
    /\ lastExec' = NoHash
    /\ UNCHANGED <<monitorVars, lastThresholds, paused, preferred, notMarkVars>>

MarkRecommend ==
    /\ \E num_tasks \in NumTasks : recommend_allocation(num_tasks, <<>>)
    /\ lastExec' = NoHash
    /\ UNCHANGED <<monitorVars, lastThresholds, paused, preferred, notMarkVars>>

NextMark ==
    \/ MarkMonitorOnce
    \/ MarkExecuteAction
    \/ MarkClearFlags
    \/ MarkAllocateGpu
    \/ MarkAllocateGpus
    \/ MarkRecommend

SpecMark == InitSched /\ [][NextMark]_vars

(***************************************************************************)
(* The classification of GPUs: GPUStatus for the readings of one GPU and   *)
(* detect_imbalance on hosts of up to three GPUs, among them a GPU with a  *)
(* large memory and a GPU whose memory query failed.                       *)
(***************************************************************************)
LargeMemoryReading ==
    [util |-> <<10>>, used |-> <<73000>>, total |-> <<80000>>, temp |-> <<50>>, procs |-> 1]

StatusReadings == HostReadings \cup {LargeMemoryReading}

DegradedReading ==
    [util |-> <<>>, used |-> <<>>, total |-> <<>>, temp |-> <<>>, procs |-> 0]

StatusHosts ==
    {host \in UNION {[0..(n - 1) -> StatusReadings] : n \in 0..3} :
        2 \in DOMAIN host => host[2] = DegradedReading}

notStatusVars ==
    <<trackerVars, thresholdVars, raceVars, loopVars, daemonVars, schedVars,
      lastPlan, lastExec, balance_count, history_index, cfg_enable_migration>>

StatusOfGpu ==
    /\ \E gpu_id \in GPUs, r \in StatusReadings : gpu_status(gpu_id, r)
    /\ UNCHANGED <<monitorVars, notStatusVars>>

StatusDetect ==
    /\ \E host \in StatusHosts : detect_imbalance(host)
    /\ UNCHANGED notStatusVars

NextStatus ==
    \/ StatusOfGpu
    \/ StatusDetect

SpecStatus == InitPlan /\ [][NextStatus]_vars

(***************************************************************************)
(* A worker's register_process and update_heartbeat next to the tracker's  *)
(* check_heartbeats, cleanup_stale_processes and unregister_process, which *)
(* run command by command.                                                 *)
(***************************************************************************)
notBeatVars ==
    <<monitorVars, thresholdVars, pub, ticks, loopVars, daemonVars, schedVars, balanceVars>>

BeatRegister ==
    /\ \E pid \in Pids, g \in GPUs, ty \in ProcTypes, pr \in Priorities :
            /\ process[pid] = NoHash
            /\ register_process(pid, g, ty, pr)
            /\ sweep' = [sweep EXCEPT !.removed = @ \ {pid}]
    /\ UNCHANGED notBeatVars

BeatHeartbeat ==
    /\ \E pid \in Pids, kw \in HeartbeatKwargs : update_heartbeat(pid, kw)
    /\ UNCHANGED <<sweep, notBeatVars>>

BeatTick ==
    /\ now < MaxTicks * TickSeconds
    /\ now' = now + TickSeconds
    /\ lastOp' = Result("tick", 0, TRUE, {})
    /\ UNCHANGED <<trackerVars, sweep, notBeatVars>>

BeatBegin ==
    /\ \E op \in {"scan", "reap"} : sweep_begin(op)
    /\ UNCHANGED notBeatVars

BeatMark ==
    /\ \E p \in Pids : sweep_mark(p)
    /\ UNCHANGED notBeatVars

BeatInfo ==
    /\ \E p \in Pids : sweep_info(p)
    /\ UNCHANGED notBeatVars

BeatUnregister ==
    /\ \E p \in Pids : unregister_begin(p)
    /\ UNCHANGED notBeatVars

BeatSrem ==
    /\ sweep_srem
    /\ UNCHANGED notBeatVars

BeatHdel ==
    /\ sweep_hdel
    /\ UNCHANGED notBeatVars

BeatDelete ==
    /\ sweep_delete
    /\ UNCHANGED notBeatVars

NextBeat ==
    \/ BeatRegister
    \/ BeatHeartbeat
    \/ BeatTick
    \/ BeatBegin
    \/ BeatMark
    \/ BeatInfo
    \/ BeatUnregister
    \/ BeatSrem
    \/ BeatHdel
    \/ BeatDelete

SpecBeat == Init /\ [][NextBeat]_vars

(***************************************************************************)
(* Properties of the process tracker (Spec).                               *)
(***************************************************************************)
InSomeGpuSet(p) == \E g \in GPUs : p \in gpu_processes[g]

AbsentEverywhere(p) ==
    /\ process[p] = NoHash
    /\ ~InSomeGpuSet(p)
    /\ p \notin DOMAIN registry

\* C1: every pid whose record exists with gpu_id = g is a member of the
\* per-GPU set of g and a key of the global registry.
C1_RecordIsIndexed ==
    \A p \in Pids :
        "gpu_id" \in DOMAIN process[p] =>
            /\ p \in gpu_processes[process[p]["gpu_id"]]
            /\ p \in DOMAIN registry

\* a scan has marked a record that was registered again on another GPU:
\* the pid is in the set of the record's gpu_id (and still in the old one)
C1_Witness ==
    /\ lastOp.op = "scan"
    /\ \E p \in Pids, g \in GPUs :
            /\ "gpu_id" \in DOMAIN process[p]
            /\ process[p]["status"] = "stuck"
            /\ process[p]["gpu_id"] # g
            /\ p \in gpu_processes[g]

\* C2: a pid is a member of the per-GPU set of g only if its record exists
\* and the record's gpu_id is g.
C2_GpuSetOnlyIfRecord ==
    \A p \in Pids, g \in GPUs :
        p \in gpu_processes[g] =>
            /\ "gpu_id" \in DOMAIN process[p]
            /\ process[p]["gpu_id"] = g

\* C3: after unregister(p) returns, p is absent from the record store, from
\* every per-GPU set and from the registry.
C3_UnregisterRemovesAll ==
    lastOp.op = "unregister" => AbsentEverywhere(lastOp.pid)

\* C4: a heartbeat for a pid that has no record reports false and creates
\* no record.
C4_HeartbeatUnknownFails ==
    [][(lastOp'.op = "heartbeat" /\ process[lastOp'.pid] = NoHash)
            => (lastOp'.ok = FALSE /\ process' = process)]_vars

\* C5: a scan returns exactly the registered pids whose heartbeat age exceeds
\* heartbeat_timeout and marks each of them stuck; a reap that runs while a
\* registered process is timed out removes it from the record store, from
\* the per-GPU set of its record and from the registry.
TimedOut(p) ==
    /\ p \in DOMAIN registry
    /\ "last_heartbeat" \in DOMAIN process[p]
    /\ now - process[p]["last_heartbeat"] > heartbeat_timeout

C6_ReapRemovesEveryStuck ==
    lastOp.op = "reap" =>
        \A p \in Pids :
            ~("status" \in DOMAIN process[p] /\ process[p]["status"] = "stuck")

\* C7: after reap() every pid listed in the registry or in a per-GPU set has
\* an existing record, and a second reap() right after it changes nothing.
C7_ReapSelfHealing ==
    [][lastOp'.op = "reap" =>
            /\ \A p \in Pids :
                    (p \in DOMAIN registry' \/ \E g \in GPUs : p \in gpu_processes'[g])
                        => process'[p] # NoHash
            /\ lastOp.op = "reap" => <<process, gpu_processes, registry>>' =
                                     <<process, gpu_processes, registry>>]_vars

(***************************************************************************)
(* Properties of the monitor's publishes (SpecMonitor, SpecRace).          *)
(***************************************************************************)
\* C8: a GPU whose metrics key has expired is not a member of the published
\* available set.
C8_ExpiredNotAvailable ==
    \A g \in GPUs : metrics[g] = NoHash => g \notin available

\* the thresholds in force: thresholds:current when it is stored, else the
\* static configuration
ThresholdsInForce ==
    IF thresholds_current # NoHash THEN thresholds_current ELSE config_thresholds

\* C9: after a tick that metered at least one GPU, the published available
\* set is exactly the metered GPUs with memory_free_mb >= min_memory_mb and
\* utilization <= max_utilization under the thresholds in force.
C9_AvailableExact ==
    (lastOp.op = "monitor_once" /\ DOMAIN lastTick.metrics_dict # {}) =>
        available =
            {g \in DOMAIN lastTick.metrics_dict :
                /\ lastTick.metrics_dict[g]["memory_free_mb"] >= ThresholdsInForce["min_memory_mb"]
                /\ lastTick.metrics_dict[g]["utilization"] <= ThresholdsInForce["max_utilization"]}

\* C10: every value of the stored available set is the complete list of one
\* single tick (never the union of two), no reader finds the key missing
\* between a publisher's delete of a non-empty set and its rewrite, and the
\* set left behind when the publishers are done carries its TTL.
C10_AtomicReplace ==
    /\ available # {} => available \in ticks
    /\ \A i \in Publishers :
            (pub[i].pc = "sadd" /\ pub[i].replaced # {}) => available # {}
    /\ ((\A i \in Publishers : pub[i].pc = "idle") /\ available # {})
            => available_exp # {}

(***************************************************************************)
(* Properties of one monitor tick (SpecMonitor).                           *)
(***************************************************************************)
\* C11: after a tick that metered no GPU the published available set is
\* empty, whatever an earlier tick had published, and the tick returned
\* without raising.
C11_EmptyTickPublishesEmpty ==
    (lastOp.op = "monitor_once" /\ DOMAIN lastTick.metrics_dict = {}) =>
        /\ available = {}
        /\ ~lastTick.raised

\* a telemetry query of this GPU returned the empty output
QueryFailed(r) == r.util = <<>> \/ r.used = <<>> \/ r.total = <<>>

\* C12: a GPU for which a memory or utilization query failed during a tick
\* is not a member of the available set that tick publishes, and the GPUs
\* whose queries all succeeded are published by the same tick.
C12_FailedTelemetryNotAvailable ==
    [][\A host \in Hosts :
            monitor_once(host) =>
                \A g \in DOMAIN host :
                    IF QueryFailed(host[g])
                    THEN g \notin available'
                    ELSE metrics'[g] # NoHash]_vars

\* C15: a monitor_once that metered at least one GPU returns to its caller
\* without raising, returns the metrics of every metered GPU, and leaves a
\* metrics key for each of them and the available set of this tick.
C15_MonitorOnceCompletes ==
    (lastOp.op = "monitor_once" /\ DOMAIN lastTick.metrics_dict # {}) =>
        /\ ~lastTick.raised
        /\ lastOp.ok
        /\ \A g \in DOMAIN lastTick.metrics_dict : metrics[g] # NoHash
        /\ available = lastTick.available_gpus

(***************************************************************************)
(* Properties of the periodic loops (SpecLoop, SpecLoopFair).              *)
(***************************************************************************)
\* C13: the loop is stopped cooperatively.  A tick in flight always ends
\* with its monitor_once carried out, and a loop thread begins a tick only
\* while running is set and it is the monitor's current thread: a thread
\* stops being the current one only when stop() has cleared running for it
\* and a later start() has created another, so a loop that was told to stop
\* starts no further tick.
C13_StopIsCooperative ==
    [][\A t \in Threads :
            /\ (loop[t] = "tick" /\ loop'[t] # "tick") => lastOp'.op = "monitor_once"
            /\ (loop[t] = "check" /\ loop'[t] = "tick") =>
                    (running /\ monitor_thread = {t})]_vars

\* C14: a tick of the monitor loop or a cycle of the balance daemon that
\* ended with an exception is followed by another tick or cycle, unless the
\* stop signal of that loop is set.
C14_LoopsResumeAfterFailure ==
    /\ \A t \in Threads :
            (loop[t] = "backoff") ~> (loop[t] = "tick" \/ ~running)
    /\ (daemon.pc = "wait" /\ lastTick.raised)
            ~> (daemon.pc = "cycle" \/ stop_event \/ balance_count = MaxCycles)

\* the only loop thread is in a tick that follows its failed one
C14_Witness ==
    \E t \in Threads :
        /\ loop[t] = "tick"
        /\ \A u \in Threads \ {t} : loop[u] = "unborn"
        /\ lastOp.op = "monitor_once" /\ lastTick.raised

\* the daemon is in a cycle that follows one whose monitor_once raised
C14_WitnessDaemon ==
    daemon.pc = "cycle" /\ balance_count > 0 /\ lastTick.raised

(***************************************************************************)
(* Properties of the scheduler (SpecSched).  They are stated for a config  *)
(* object that has the gpu_balancing section the scheduler reads; without  *)
(* it every score of a metered GPU and every allocation fails.             *)
(***************************************************************************)
UtilGrid == {0, 20, 50, 92, 95, 100}

ProcGrid == 0..6

\* the result of get_adaptive_thresholds a call made: after the call the
\* thresholds it used are the ones in force
InForce == [raised |-> FALSE, thresholds |-> ThresholdsInForce, saved |-> FALSE]

\* C16: with the thresholds and the other metrics fixed the score does not
\* grow with utilization nor with the number of processes; its memory term
\* is 0 when free memory is below min_memory_mb and 30 when free memory is
\* 8000 MB or more.
C16_ScoreShape ==
    (lastOp.op = "score_gpu" /\ lastScore.found /\ cfg_gpu_balancing) =>
        LET m == metrics[lastScore.gpu_id] IN
        /\ ~lastScore.raised
        /\ \A u \in UtilGrid :
                u >= m["utilization"] =>
                    FracLeq(ScoreOf([m EXCEPT !["utilization"] = u], InForce, TRUE).score,
                            lastScore.score)
        /\ \A n \in ProcGrid :
                n >= m["num_processes"] =>
                    FracLeq(ScoreOf([m EXCEPT !["num_processes"] = n], InForce, TRUE).score,
                            lastScore.score)
        /\ m["memory_free_mb"] < ThresholdsInForce["min_memory_mb"] =>
                lastScore.mem_score = Whole(0)
        /\ m["memory_free_mb"] >= 8000 => lastScore.mem_score = Whole(30)

\* C17: for every published reading and every thresholds in force, the
\* score is defined and lies between 0 and 100, and a GPU without metrics
\* scores 0.
C17_ScoreInRange ==
    (lastOp.op = "score_gpu" /\ cfg_gpu_balancing) =>
        /\ ~lastScore.raised
        /\ FracLeq(Whole(0), lastScore.score)
        /\ FracLeq(lastScore.score, Whole(100))
        /\ ~lastScore.found => lastScore.score = Whole(0)

\* the candidates of an allocation: the GPUs with metrics whose free
\* memory and utilization satisfy the caller's constraints, or the
\* thresholds in force where the caller gave none
Candidates(cs) ==
    LET given(f) == cs # <<>> /\ f \in DOMAIN cs[1]
        min_memory == IF given("min_memory_mb") THEN cs[1]["min_memory_mb"]
                                                ELSE ThresholdsInForce["min_memory_mb"]
        max_util == IF given("max_utilization") THEN cs[1]["max_utilization"]
                                                 ELSE ThresholdsInForce["max_utilization"]
    IN {g \in GPUs :
            /\ metrics[g] # NoHash
            /\ metrics[g]["memory_free_mb"] >= min_memory
            /\ metrics[g]["utilization"] <= max_util}

Named(cs) == cs # <<>> /\ "specific_gpu" \in DOMAIN cs[1]

\* C18: an allocation with constraints that name no GPU, or a GPU that is
\* no candidate, returns a candidate of maximal score, the smallest GPU id
\* among those of maximal score.
C18_AllocateBest ==
    (/\ lastOp.op = "allocate_gpu" /\ cfg_gpu_balancing
     /\ lastAlloc.constraints # <<>>
     /\ Candidates(lastAlloc.constraints) # {}
     /\ ~(/\ Named(lastAlloc.constraints)
          /\ lastAlloc.constraints[1]["specific_gpu"] \in Candidates(lastAlloc.constraints)))
    => \E g \in Candidates(lastAlloc.constraints) :
            /\ lastAlloc.result = {g}
            /\ \A h \in Candidates(lastAlloc.constraints) :
                    LET sg == ScoreOf(metrics[g], InForce, TRUE)
                        sh == ScoreOf(metrics[h], InForce, TRUE)
                    IN /\ ~sg.raised /\ ~sh.raised
                       /\ FracLeq(sh.score, sg.score)
                       /\ sh.score = sg.score => g <= h

\* C19: when the constraints name a GPU, the allocation returns that GPU
\* if it is a candidate, and does not return it if it is not.
C19_SpecificGpu ==
    (lastOp.op = "allocate_gpu" /\ cfg_gpu_balancing /\ Named(lastAlloc.constraints)) =>
        LET specific_gpu == lastAlloc.constraints[1]["specific_gpu"] IN
        IF specific_gpu \in Candidates(lastAlloc.constraints)
        THEN lastAlloc.result = {specific_gpu}
        ELSE lastAlloc.result # {specific_gpu}

\* C20: an allocation without a constraints argument returns a candidate
\* whenever there is one, and no GPU only when there is none.
C20_AllocateDefault ==
    (lastOp.op = "allocate_gpu" /\ cfg_gpu_balancing /\ lastAlloc.constraints = <<>>) =>
        /\ lastAlloc.result \subseteq Candidates(lastAlloc.constraints)
        /\ lastAlloc.result = {} <=> Candidates(lastAlloc.constraints) = {}

\* C21: every GPU id that allocate_gpu or allocate_gpus returns is a member
\* of the published available set at the time of the call, whatever the
\* constraints (the call does not write the set).
C21_AllocatedWasPublished ==
    lastOp.op \in {"allocate_gpu", "allocate_gpus"} => lastOp.pids \subseteq available

\* the score the claims compare by: score_gpu under the thresholds in force
ScoreInForce(g) == ScoreOf(metrics[g], InForce, TRUE).score

\* best first: no GPU twice, and no GPU before one of higher score
RankedBestFirst(ids) ==
    \A i, j \in DOMAIN ids :
        i < j => /\ ids[i] # ids[j]
                 /\ FracLeq(ScoreInForce(ids[j]), ScoreInForce(ids[i]))

\* C22: allocate_gpus called with a count and no constraints, while the
\* published available set is the set of candidates, returns
\* min(count, |available|) available GPUs (all of them for count = -1),
\* distinct and best first, and the empty list when none is available.
C22_AllocateMany ==
    (/\ lastOp.op = "allocate_gpus" /\ cfg_gpu_balancing
     /\ lastAlloc.constraints \in {<<>>, <<NoHash>>}
     /\ available = Candidates(lastAlloc.constraints))
    => LET n == Cardinality(available)
           ids == lastAlloc.allocated
       IN /\ Len(ids) = IF lastAlloc.count = -1 THEN n ELSE Min2(lastAlloc.count, n)
          /\ \A i \in DOMAIN ids : ids[i] \in available
          /\ RankedBestFirst(ids)

\* the GPUs with metrics that satisfy the configured thresholds
ConfigCandidates ==
    {g \in GPUs :
        /\ metrics[g] # NoHash
        /\ metrics[g]["memory_free_mb"] >= config_thresholds.min_memory_mb
        /\ metrics[g]["utilization"] <= config_thresholds.max_utilization}

\* C23: with n >= 1 available GPUs, recommend_allocation answers 'spread'
\* with num_tasks distinct available GPUs when num_tasks <= n, 'balanced'
\* with the whole available set when num_tasks <= 2n, and otherwise
\* 'concentrate' with the max(1, n div 2) highest-scored available GPUs.
C23_Recommend ==
    (/\ lastOp.op = "recommend_allocation" /\ cfg_gpu_balancing
     /\ available = ConfigCandidates
     /\ available # {})
    => LET n == Cardinality(available)
           ids == lastAlloc.gpu_ids
           listed == {ids[i] : i \in DOMAIN ids}
       IN /\ listed \subseteq available
          /\ Cardinality(listed) = Len(ids)
          /\ IF lastAlloc.num_tasks <= n
             THEN lastAlloc.strategy = "spread" /\ Len(ids) = lastAlloc.num_tasks
             ELSE IF lastAlloc.num_tasks <= 2 * n
             THEN lastAlloc.strategy = "balanced" /\ listed = available
             ELSE /\ lastAlloc.strategy = "concentrate"
                  /\ Len(ids) = Max2(1, n \div 2)
                  /\ RankedBestFirst(ids)
                  /\ \A g \in available \ listed, h \in listed :
                        FracLeq(ScoreInForce(g), ScoreInForce(h))

(***************************************************************************)
(* Properties of the load balancer's plans (SpecPlan).                     *)
(***************************************************************************)
ActionsOf(plan, action_type) ==
    {i \in DOMAIN plan : plan[i].action_type = action_type}

PriorityDescending(plan) ==
    \A i \in DOMAIN plan : \A j \in DOMAIN plan : i < j => plan[i].priority >= plan[j].priority

\* C25: under the no-migration strategy the plan for an imbalance with
\* overloaded GPUs O and idle GPUs I has exactly |O| + |I| actions: one
\* pause_new_tasks of priority 7 per GPU of O, one encourage_new_tasks of
\* priority 5 per GPU of I, no migrate_process, priorities descending.
C25_NoMigrationPlan ==
    (lastPlan # NoHash /\ lastPlan.strategy = "no_migration" /\ lastPlan.info.is_imbalanced) =>
        LET O == SeqRange(lastPlan.info.overloaded_gpus)
            I == SeqRange(lastPlan.info.idle_gpus)
            plan == lastPlan.actions
        IN  /\ Len(plan) = Cardinality(O) + Cardinality(I)
            /\ \A g \in O :
                  Cardinality({i \in ActionsOf(plan, "pause_new_tasks") :
                                  plan[i].source_gpu = {g} /\ plan[i].priority = 7}) = 1
            /\ \A g \in I :
                  Cardinality({i \in ActionsOf(plan, "encourage_new_tasks") :
                                  plan[i].target_gpu = {g} /\ plan[i].priority = 5}) = 1
            /\ ActionsOf(plan, "migrate_process") = {}
            /\ PriorityDescending(plan)

\* a no-migration plan for two overloaded GPUs and an idle one
C25_Witness ==
    /\ lastPlan # NoHash
    /\ lastPlan.strategy = "no_migration"
    /\ Len(lastPlan.info.overloaded_gpus) = 2
    /\ Len(lastPlan.info.idle_gpus) = 1
    /\ Len(lastPlan.actions) = 3

\* C26: under the process-migration strategy every planned action migrates
\* a lowest-priority process of an overloaded source to an idle target, no
\* two actions share a source or a target, sources come by decreasing
\* load_score, and an overloaded GPU without processes uses up no idle
\* target: as many pairs are planned as there are idle targets and
\* overloaded GPUs with processes to pair.
Smaller(a, b) == IF a <= b THEN a ELSE b

C26_MigrationPlan ==
    (lastPlan # NoHash /\ lastPlan.strategy = "process_migration"
                       /\ lastPlan.info.is_imbalanced) =>
        LET O == SeqRange(lastPlan.info.overloaded_gpus)
            I == SeqRange(lastPlan.info.idle_gpus)
            details == lastPlan.info.details
            plan == lastPlan.actions
        IN  /\ \A i \in DOMAIN plan :
                  /\ plan[i].action_type = "migrate_process"
                  /\ plan[i].source_gpu \subseteq O /\ plan[i].source_gpu # {}
                  /\ plan[i].target_gpu \subseteq I /\ plan[i].target_gpu # {}
                  /\ \A g \in plan[i].source_gpu :
                        plan[i].process_id \subseteq LowestPriority(ProcessesOn(g))
                  /\ plan[i].process_id # {}
            /\ \A i \in DOMAIN plan : \A j \in DOMAIN plan :
                  i # j => /\ plan[i].source_gpu # plan[j].source_gpu
                           /\ plan[i].target_gpu # plan[j].target_gpu
            /\ \A i \in DOMAIN plan : \A j \in DOMAIN plan :
                  i < j => \A g \in plan[i].source_gpu : \A h \in plan[j].source_gpu :
                              FracLeq(details[h], details[g])
            /\ Len(plan) = Smaller(Cardinality({g \in O : ProcessesOn(g) # {}}),
                                   Cardinality(I))


(***************************************************************************)
(* Properties of the load balancer on a host (SpecBalance).                *)
(***************************************************************************)
\* the GPUs of a metered fleet that the thresholds call overloaded and idle
OverloadedOf(m) ==
    {g \in DOMAIN m : \/ m[g]["utilization"] > 85
                      \/ m[g]["memory_used_mb"] * 10 > m[g]["memory_total_mb"] * 9}

IdleOf(m) ==
    {g \in DOMAIN m : m[g]["utilization"] < 50 /\ m[g]["memory_free_mb"] > 2000}

\* C24: detect_imbalance lists as overloaded exactly the metered GPUs with
\* utilization > 85 or memory_used/memory_total > 0.9, as idle exactly
\* those with utilization < 50 and memory_free_mb > 2000, and reports
\* is_imbalanced exactly when both lists are non-empty.
C24_DetectImbalance ==
    (lastBalance # NoHash /\ lastBalance.op = "detect_imbalance") =>
        LET m == collect_all_gpus(lastBalance.host)
            info == lastBalance.info
        IN  /\ SeqRange(info.overloaded_gpus) = OverloadedOf(m)
            /\ SeqRange(info.idle_gpus) = IdleOf(m)
            /\ info.is_imbalanced <=> (info.overloaded_gpus # <<>> /\ info.idle_gpus # <<>>)

\* C27: execute_action of a migrate_process action never reports success,
\* with migration disabled or enabled and whatever the process is, and it
\* leaves the process records, the per-GPU sets, the registry and the two
\* marker sets as they were.
C27_MigrationAdvisory ==
    [][(lastExec' # NoHash /\ lastExec'.action.action_type = "migrate_process") =>
            /\ ~lastExec'.ok
            /\ UNCHANGED <<process, gpu_processes, registry, paused, preferred>>]_vars

\* migration is enabled and the action names a registered train process
C27_Witness ==
    /\ lastExec # NoHash
    /\ lastExec.action.action_type = "migrate_process"
    /\ cfg_gpu_balancing /\ cfg_enable_migration
    /\ \E pid \in lastExec.action.process_id :
            HasInfo(process, pid) /\ process[pid]["proc_type"] = "train"

\* migration is refused because the config does not enable it
C27_WitnessRefused ==
    /\ lastExec # NoHash
    /\ lastExec.action.action_type = "migrate_process"
    /\ cfg_gpu_balancing /\ ~cfg_enable_migration

C29_HistoryOnlyAfterActions ==
    [][(balance_count' # balance_count \/ history_index' # history_index) =>
            /\ lastBalance' # NoHash
            /\ lastBalance'.op = "balance_once"
            /\ lastBalance'.actions_taken >= 1]_vars

\* C30: the status record says running from the start of run(); once the
\* stop flag is set no new cycle is started, the cycle in flight ends, and
\* the daemon eventually leaves its loop with status stopped, which no
\* later write replaces.
C30_DaemonLifecycle ==
    /\ [](daemon.pc \notin {"new", "returned"} => daemon.status = "running")
    /\ [][(stop_event /\ daemon.pc # "cycle") => daemon'.pc # "cycle"]_vars
    /\ [][daemon.status = "stopped" => daemon'.status = "stopped"]_vars
    /\ (stop_event /\ daemon.pc # "new")
            ~> (daemon.pc = "returned" /\ daemon.status = "stopped")


(***************************************************************************)
(* Properties of the threshold manager (SpecAdapt).                        *)
(***************************************************************************)
InRange(x, lo, hi) == lo <= x /\ x <= hi

\* C31: the configuration get_adaptive_thresholds computes and saves has
\* util_high in [70, 95], util_low in [30, 60] and min_memory in
\* [1000, 4000], whatever the averages and the hour; what it returned is
\* what thresholds:current then holds.
C31_AdaptiveInRange ==
    (lastThresholds # NoHash /\ lastThresholds.op = "get_adaptive_thresholds"
                             /\ lastThresholds.saved) =>
        LET th == lastThresholds.thresholds IN
        /\ InRange(th["util_high_threshold"], 70, 95)
        /\ InRange(th["util_low_threshold"], 30, 60)
        /\ InRange(th["min_memory_mb"], 1000, 4000)
        /\ th["util_low_threshold"] < th["util_high_threshold"]
        /\ \A f \in ThresholdFields : thresholds_current[f] = th[f]

\* a night-time computation from a fleet that was idle and had no memory
\* in use: every term is below its floor before the clamps
C31_Witness ==
    /\ lastThresholds # NoHash
    /\ lastThresholds.op = "get_adaptive_thresholds"
    /\ lastThresholds.saved
    /\ lastThresholds.load[1].hour = 21
    /\ lastThresholds.load[1].avg_util = 0
    /\ lastThresholds.thresholds["util_high_threshold"] = 70

\* C32: after enable_adaptive(x) reports success the adaptive flag of the
\* current thresholds is x.
C32_EnableAdaptiveSetsFlag ==
    (lastThresholds # NoHash /\ lastThresholds.op = "enable_adaptive" /\ lastOp.ok) =>
        get_current_thresholds(thresholds_current)["adaptive"] = lastThresholds.enabled


(***************************************************************************)
(* Properties of the scheduler next to the marker sets (SpecMark).         *)
(***************************************************************************)
AllocArgs == {"constraints", "count", "num_tasks"}

\* two records of the same scheduler operation with the same arguments
SameCall(a, b) ==
    /\ DOMAIN a = DOMAIN b
    /\ \A f \in DOMAIN a \cap AllocArgs : a[f] = b[f]

C34_OverloadedIdleDisjoint ==
    /\ (lastBalance # NoHash /\ lastBalance.op = "GPUStatus") =>
            ~(lastBalance.status.is_overloaded /\ lastBalance.status.is_idle)
    /\ (lastBalance # NoHash /\ lastBalance.op = "detect_imbalance") =>
            SeqRange(lastBalance.info.overloaded_gpus)
                \cap SeqRange(lastBalance.info.idle_gpus) = {}

\* C40: a GPU whose reading is degraded (memory_total = 0) does not keep
\* detect_imbalance from reporting the rest of the fleet: when one of the
\* other metered GPUs is overloaded and one is idle, the result is
\* imbalanced and lists them.
C40_DegradedDoesNotSuppress ==
    (lastBalance # NoHash /\ lastBalance.op = "detect_imbalance") =>
        LET m == collect_all_gpus(lastBalance.host)
            sound == [g \in {h \in DOMAIN m : m[h]["memory_total_mb"] # 0} |-> m[g]]
            info == lastBalance.info
        IN  (OverloadedOf(sound) # {} /\ IdleOf(sound) \ OverloadedOf(sound) # {}) =>
                /\ info.is_imbalanced
                /\ OverloadedOf(sound) \subseteq SeqRange(info.overloaded_gpus)
                /\ IdleOf(sound) \subseteq SeqRange(info.idle_gpus)


C36_PlanKeepsReport ==
    lastPlan # NoHash => lastPlan.info_after = lastPlan.info


(***************************************************************************)
(* Properties of heartbeats next to the tracker's calls (SpecBeat).        *)
(***************************************************************************)
\* C37: once the removal of a pid has completed, the store holds no record
\* key for it and it is in no index, whatever heartbeats were sent.
C37_RemovedIsGone ==
    \A p \in sweep.removed :
        /\ process[p] = NoHash
        /\ p \notin DOMAIN registry
        /\ \A g \in GPUs : p \notin gpu_processes[g]

\* the stored heartbeat of p is older than the timeout
StoredStale(p) ==
    /\ "last_heartbeat" \in DOMAIN process[p]
    /\ now - process[p]["last_heartbeat"] > heartbeat_timeout

\* C38: the scan writes status = stuck for a pid, and the reaper removes a
\* pid, only while the last_heartbeat stored for it is older than
\* heartbeat_timeout.
C38_WriteOnlyWhenStale ==
    [][/\ \A p \in Pids : sweep_mark(p) => StoredStale(p)
       /\ (sweep.op = "reap" /\ (sweep_srem \/ sweep_hdel \/ sweep_delete)) =>
                StoredStale(sweep.pid)]_vars


(***************************************************************************)
(* One monitor loop (SpecLoop).                                            *)
(***************************************************************************)
\* C39: at most one monitor loop goes on ticking.  start() while running
\* creates no thread, and a loop thread enters a tick only if it is the
\* thread of the latest start(): the loop of an earlier start(), told to
\* stop, enters no tick next to its successor.
C39_OneLoopTicks ==
    [][/\ (running /\ start) => loop' = loop
       /\ \A t \in Threads :
            (loop[t] = "check" /\ loop'[t] = "tick") => monitor_thread = {t}]_vars


====
